---- MODULE Spec2Model ----
(***************************************************************************)
(* State-machine model of the BTF encoder of pahole (btf_encoder.c):       *)
(* the CU driver cu__encode_btf, the finalizer btf_encoder__encode, the    *)
(* symbol collector, the function filter, the per-CPU variable index, the  *)
(* type encoder and the name validator.                                    *)
(*                                                                         *)
(* Names are C strings, modelled as sequences of character codes; the      *)
(* terminating NUL is the position one past the end of the sequence.       *)
(***************************************************************************)
EXTENDS Integers, Sequences, FiniteSets, TLC

VARIABLES
    btfe,              \* static struct btf_elf *btfe (NULL or the writer)
    functions,         \* static struct elf_function *functions (functions_cnt = Len)
    percpu_vars,       \* static struct var_info percpu_vars[] (percpu_var_cnt = Len)
    has_index_type,    \* static bool has_index_type
    need_index_type,   \* static bool need_index_type
    array_index_id,    \* static uint32_t array_index_id
    btf_elf__verbose,  \* global of the writer library, set by cu__encode_btf
    btf_elf__force,    \* global of the writer library, set by cu__encode_btf
    functions_alloc,   \* static int functions_alloc
    crashed,           \* the process dereferenced a null pointer and was killed
    last,              \* what the last call did (its arguments, status, flushes)
    nv_name,           \* name validator harness: the name under test
    nv_result,         \* name validator harness: btf_name_valid's answer
    rr                 \* re-run harness: the script, both runs' outputs

vars == <<btfe, functions, percpu_vars, has_index_type, need_index_type,
          array_index_id, btf_elf__verbose, btf_elf__force, functions_alloc,
          crashed, last,
          nv_name, nv_result, rr>>

\* the null pointer to a structure
NULL == [null |-> TRUE]

\* the null char pointer: no string at all (the empty string is << >>)
NO_NAME == << -1 >>


\* ------------------------------------------------------------------ bounds

\* cu__encode_btf is not called any more once the writer holds this many types
MaxTypes == 9
\* longest name given to the name validator
MaxNameLen == 130
\* the writer operations of one call that the environment can make fail: 1..MaxFailOp
MaxFailOp == 8
\* longest script of the re-run harness
MaxScript == 2
\* longest function table handed to filter_functions on its own
MaxFuncs == 3
\* a CU with an array is not encoded any more once the writer holds this many types
MaxArrayTypes == 4

\* ------------------------------------------------------------------ names

N_start_mcount_loc == <<95, 95, 115, 116, 97, 114, 116, 95, 109, 99, 111, 117, 110, 116, 95, 108, 111, 99>>  \* "__start_mcount_loc"
N_stop_mcount_loc == <<95, 95, 115, 116, 111, 112, 95, 109, 99, 111, 117, 110, 116, 95, 108, 111, 99>>  \* "__stop_mcount_loc"
N_init_begin == <<95, 95, 105, 110, 105, 116, 95, 98, 101, 103, 105, 110>>  \* "__init_begin"
N_init_end == <<95, 95, 105, 110, 105, 116, 95, 101, 110, 100>>  \* "__init_end"
N_init_bpf_begin == <<95, 95, 105, 110, 105, 116, 95, 98, 112, 102, 95, 112, 114, 101, 115, 101, 114, 118, 101, 95, 116, 121, 112, 101, 95, 98, 101, 103, 105, 110>>  \* "__init_bpf_preserve_type_begin"
N_init_bpf_end == <<95, 95, 105, 110, 105, 116, 95, 98, 112, 102, 95, 112, 114, 101, 115, 101, 114, 118, 101, 95, 116, 121, 112, 101, 95, 101, 110, 100>>  \* "__init_bpf_preserve_type_end"
N_foo == <<102, 111, 111>>  \* "foo"
N_bar == <<98, 97, 114>>  \* "bar"
N_ini == <<105, 110, 105>>  \* "ini"
N_notr == <<110, 111, 116, 114>>  \* "notr"
N_runq == <<114, 117, 110, 113>>  \* "runq"
N_cnt == <<99, 110, 116>>  \* "cnt"
N_ok_v == <<111, 107, 95, 118>>  \* "ok_v"
N_1bad == <<49, 98, 97, 100>>  \* "1bad"
N_int == <<105, 110, 116>>  \* "int"
N_long == <<108, 111, 110, 103>>  \* "long"
N_s == <<115>>  \* "s"
N_a == <<97>>  \* "a"
N_b == <<98>>  \* "b"
N_x == <<120>>  \* "x"
N_ARRAY_SIZE_TYPE == <<95, 95, 65, 82, 82, 65, 89, 95, 83, 73, 90, 69, 95, 84, 89, 80, 69, 95, 95>>  \* "__ARRAY_SIZE_TYPE__"
PERCPU_SECTION == <<46, 100, 97, 116, 97, 46, 46, 112, 101, 114, 99, 112, 117>>  \* ".data..percpu"

\* the character at offset i of the C string s (offset 0 is the first one);
\* the byte after the last character is the terminating NUL (code 0)
CharAt(s, i) == IF i < Len(s) THEN s[i + 1] ELSE 0

\* strcmp of <string.h>: the sign of the difference at the first offset at
\* which the strings differ (the terminating NUL included)
strcmp(a, b) ==
    LET n == IF Len(a) < Len(b) THEN Len(a) ELSE Len(b)
        diffs == {i \in 0..n : CharAt(a, i) # CharAt(b, i)} IN
    IF diffs = {} THEN 0
    ELSE LET i == CHOOSE d \in diffs : \A e \in diffs : d <= e IN
         IF CharAt(a, i) < CharAt(b, i) THEN -1 ELSE 1

\* ------------------------------------------------------------------ name validator

KSYM_NAME_LEN == 128

\* isalpha and isalnum of <ctype.h> in the C locale
isalpha(c) == c \in 65..90 \/ c \in 97..122
isalnum(c) == isalpha(c) \/ c \in 48..57

btf_name_char_ok(c, first) ==
    IF c = 95 \/ c = 46 THEN TRUE
    ELSE IF first THEN isalpha(c) ELSE isalnum(c)

\* the while loop of btf_name_valid, from its exit: p runs from offset 1 and
\* the loop is left at the first offset that holds the NUL, has reached limit,
\* or holds a character that is not allowed (the function then returns false);
\* no offset beyond the NUL (offset Len(s)) is looked at
btf_name_valid(s) ==
    IF ~btf_name_char_ok(CharAt(s, 0), TRUE) THEN FALSE
    ELSE LET limit == 0 + KSYM_NAME_LEN
             last_ == IF Len(s) < limit THEN Len(s) ELSE limit
             exits == {q \in 1..last_ :
                          \/ ~(CharAt(s, q) # 0 /\ q < limit)
                          \/ ~btf_name_char_ok(CharAt(s, q), FALSE)}
             p == CHOOSE q \in exits : \A e \in exits : q <= e IN
         IF CharAt(s, p) # 0 /\ p < limit THEN FALSE
         ELSE CharAt(s, p) = 0

\* ------------------------------------------------------------------ ELF files

Sym(name, value, size, shndx, type) ==
    [name |-> name, st_value |-> value, st_size |-> size, st_shndx |-> shndx,
     type |-> type]

\* A kernel image: the six layout anchors, an mcount table of four entries in
\* section 3, functions (two symbols named foo, both traced; ini in the init
\* range; notr not traced) and two per-CPU objects in section 5.
Elf_vmlinux ==
    [symtab |-> <<
        Sym(N_start_mcount_loc, 800, 0, 3, "NOTYPE"),
        Sym(N_stop_mcount_loc, 832, 0, 3, "NOTYPE"),
        Sym(N_init_begin, 200, 0, 2, "NOTYPE"),
        Sym(N_init_end, 300, 0, 2, "NOTYPE"),
        Sym(N_init_bpf_begin, 250, 0, 2, "NOTYPE"),
        Sym(N_init_bpf_end, 280, 0, 2, "NOTYPE"),
        Sym(N_foo, 24, 4, 1, "FUNC"),
        Sym(N_notr, 40, 4, 1, "FUNC"),
        Sym(N_foo, 16, 4, 1, "FUNC"),
        Sym(N_ini, 210, 4, 2, "FUNC"),
        Sym(N_bar, 32, 4, 1, "FUNC"),
        Sym(N_runq, 72, 8, 5, "OBJECT"),
        Sym(N_cnt, 64, 4, 5, "OBJECT") >>,
     percpu_shndx |-> 5,
     percpu_base_addr |-> 0,
     sections |-> (3 :> [sh_addr |-> 800, words |-> <<32, 16, 210, 24>>])]

\* A module object: no layout anchors, two functions, and a per-CPU section
\* (4) that holds one object with a valid name and one with an invalid name.
Elf_mod ==
    [symtab |-> <<
        Sym(N_foo, 16, 4, 1, "FUNC"),
        Sym(N_bar, 32, 4, 1, "FUNC"),
        Sym(N_ok_v, 8, 4, 4, "OBJECT"),
        Sym(N_1bad, 16, 4, 4, "OBJECT") >>,
     percpu_shndx |-> 4,
     percpu_base_addr |-> 0,
     sections |-> << >>]

\* the names collect_symbol looks for
Anchors ==
    << N_start_mcount_loc, N_stop_mcount_loc, N_init_begin, N_init_end,
       N_init_bpf_begin, N_init_bpf_end >>

\* the kernel image without the symbols of some names
Elf_without(names) ==
    LET Kept(sym) == sym.name \notin names IN
    [Elf_vmlinux EXCEPT !.symtab = SelectSeq(@, Kept)]

\* a kernel image with all six anchors whose only functions are ini (in the
\* init range) and notr (not traced)
Elf_init == Elf_without({N_foo, N_bar})

\* a kernel image whose function bar is in the bpf-preserve-type range and
\* traced
Elf_bpf ==
    [Elf_without({N_bar}) EXCEPT
        !.symtab = Append(@, Sym(N_bar, 260, 4, 2, "FUNC")),
        !.sections = (3 :> [sh_addr |-> 800, words |-> <<260, 16, 210, 24>>])]

\* images that lack one anchor each ("vmlinux.1" lacks Anchors[1]...), and
\* the two above
SymFilenames ==
    {"vmlinux.1", "vmlinux.2", "vmlinux.3", "vmlinux.4", "vmlinux.5",
     "vmlinux.6", "vmlinux.init", "vmlinux.bpf"}

\* the kernel image with its per-CPU section based at the address of cnt
Elf_pcpu == [Elf_vmlinux EXCEPT !.percpu_base_addr = 64]

Filenames == {"vmlinux", "mod.o"}

\* the images of the CUs with per-CPU variables
VarFilenames == {"vmlinux", "vmlinux.pcpu", "mod.o"}

ElfOf(filename) ==
    CASE filename = "vmlinux" -> Elf_vmlinux
      [] filename = "mod.o" -> Elf_mod
      [] filename = "vmlinux.1" -> Elf_without({Anchors[1]})
      [] filename = "vmlinux.2" -> Elf_without({Anchors[2]})
      [] filename = "vmlinux.3" -> Elf_without({Anchors[3]})
      [] filename = "vmlinux.4" -> Elf_without({Anchors[4]})
      [] filename = "vmlinux.5" -> Elf_without({Anchors[5]})
      [] filename = "vmlinux.6" -> Elf_without({Anchors[6]})
      [] filename = "vmlinux.init" -> Elf_init
      [] filename = "vmlinux.bpf" -> Elf_bpf
      [] filename = "vmlinux.pcpu" -> Elf_pcpu

\* ------------------------------------------------------------------ CUs

\* struct tag and its variants (base_type, type, array_type, ftype), flattened
Tag(kind, type, name) ==
    [tag |-> kind, type |-> type, name |-> name, declaration |-> FALSE,
     size |-> 0, members |-> << >>, nr_entries |-> << >>,
     enumerators |-> << >>, parms |-> << >>]

Member(name, type, bit_offset) ==
    [name |-> name, type |-> type, bitfield_size |-> 0, bit_offset |-> bit_offset]

Ftype(ret, parms) == [type |-> ret, parms |-> parms]
Parm(name, type) == [name |-> name, type |-> type]

Function(name, declaration, external, proto) ==
    [name |-> name, declaration |-> declaration, external |-> external,
     proto |-> proto]

Variable(declaration, scope, external, addr, type, spec) ==
    [declaration |-> declaration, scope |-> scope, external |-> external,
     addr |-> addr, type |-> type, spec |-> spec]

\* cu->types_table: entry 0 stands for void, entries 1..nr_entries-1 are the
\* tags (NULL marks a hole in the table)
Cu(name, filename, types, fns, variables) ==
    [name |-> name, filename |-> filename,
     types_table |-> [nr_entries |-> Len(types) + 1, entries |-> types],
     functions |-> fns, variables |-> variables]

T_int == [Tag("base_type", 0, N_int) EXCEPT !.size = 32]
T_long == [Tag("base_type", 0, N_long) EXCEPT !.size = 64]

\* int; int *; int [4][3]; struct s { int a; int *b; };
\* foo(int x); bar(int) (one unnamed parameter); the per-CPU variable runq
Cu_k1 ==
    Cu("k1", "vmlinux",
       << T_int,
          Tag("pointer_type", 1, NO_NAME),
          [Tag("array_type", 1, NO_NAME) EXCEPT !.nr_entries = <<4, 3>>],
          [Tag("structure_type", 0, N_s) EXCEPT !.size = 16,
              !.members = << Member(N_a, 1, 0), Member(N_b, 2, 64) >>] >>,
       << Function(N_foo, FALSE, TRUE, Ftype(1, << Parm(N_x, 1) >>)),
          Function(N_bar, FALSE, TRUE, Ftype(0, << Parm(NO_NAME, 1) >>)) >>,
       << Variable(FALSE, "global", TRUE, 72, 1, NULL) >>)

\* long; long [2]; void * : no base type named int;
\* foo(long x); bar(long x); ini(); the per-CPU variable cnt, of void type
Cu_k2 ==
    Cu("k2", "vmlinux",
       << T_long,
          [Tag("array_type", 1, NO_NAME) EXCEPT !.nr_entries = <<2>>],
          Tag("pointer_type", 0, NO_NAME) >>,
       << Function(N_foo, FALSE, TRUE, Ftype(1, << Parm(N_x, 1) >>)),
          Function(N_bar, FALSE, FALSE, Ftype(0, << Parm(N_x, 1) >>)),
          Function(N_ini, FALSE, TRUE, Ftype(0, << >>)) >>,
       << Variable(FALSE, "global", FALSE, 64, 0, NULL) >>)

\* a type table with a hole at core ID 2
Cu_k3 ==
    Cu("k3", "vmlinux",
       << T_int, NULL, Tag("const_type", 1, NO_NAME) >>,
       << >>, << >>)

\* no types, no functions, no variables
Cu_k4 == Cu("k4", "vmlinux", << >>, << >>, << >>)

\* int; typedef int x; foo is external and defined, bar is only declared
Cu_m1 ==
    Cu("m1", "mod.o",
       << T_int, Tag("typedef", 1, N_x) >>,
       << Function(N_foo, FALSE, TRUE, Ftype(1, << Parm(N_x, 1) >>)),
          Function(N_bar, TRUE, TRUE, Ftype(0, << >>)) >>,
       << Variable(FALSE, "global", TRUE, 8, 1, NULL) >>)

\* void *; foo is external and defined here as well
Cu_m2 ==
    Cu("m2", "mod.o",
       << Tag("pointer_type", 0, NO_NAME) >>,
       << Function(N_foo, FALSE, TRUE, Ftype(0, << Parm(N_x, 1) >>)) >>,
       << >>)

\* one tag of a kind the type encoder does not know
Cu_m3 ==
    Cu("m3", "mod.o",
       << Tag("namespace", 0, NO_NAME) >>, << >>, << >>)

CUs == {Cu_k1, Cu_k2, Cu_k3, Cu_k4, Cu_m1, Cu_m2, Cu_m3}

\* a CU of the image filename with references to void: int; void *;
\* const void; typedef void x; int [2]; struct s { <void> a; int b; }, the
\* type of member a being one the loader did not resolve
Cu_t(filename) ==
    Cu("t", filename,
       << T_int,
          Tag("pointer_type", 0, NO_NAME),
          Tag("const_type", 0, NO_NAME),
          Tag("typedef", 0, N_x),
          [Tag("array_type", 1, NO_NAME) EXCEPT !.nr_entries = <<2>>],
          [Tag("structure_type", 0, N_s) EXCEPT !.size = 8,
              !.members = << Member(N_a, 0, 0), Member(N_b, 1, 32) >>] >>,
       << >>,
       << >>)

\* a CU of the image filename: int; foo(int x), external; ini(), external;
\* notr(), static; bar(), an external declaration
Cu_s(filename) ==
    Cu("s", filename,
       << T_int >>,
       << Function(N_foo, FALSE, TRUE, Ftype(1, << Parm(N_x, 1) >>)),
          Function(N_ini, FALSE, TRUE, Ftype(0, << >>)),
          Function(N_notr, FALSE, FALSE, Ftype(0, << >>)),
          Function(N_bar, TRUE, TRUE, Ftype(0, << >>)) >>,
       << >>)

\* a CU of the image filename: int; long; and the variables, in DWARF order:
\* runq (at 72), global and external; a global declaration at the address of
\* cnt; a local variable at the address of cnt; a global at an address that
\* is no per-CPU object's; and, at the address of cnt (64), a local external
\* variable of void type whose specification is a static long
Cu_v(filename) ==
    Cu("v", filename,
       << T_int, T_long >>,
       << >>,
       << Variable(FALSE, "global", TRUE, 72, 1, NULL),
          Variable(TRUE, "global", TRUE, 64, 1, NULL),
          Variable(FALSE, "local", FALSE, 64, 1, NULL),
          Variable(FALSE, "global", TRUE, 96, 1, NULL),
          Variable(FALSE, "local", TRUE, 64, 0,
                   Variable(TRUE, "global", FALSE, 0, 2, NULL)) >>)

\* a CU of the image filename: int; cnt, a global of void type; runq
Cu_w(filename) ==
    Cu("w", filename,
       << T_int >>,
       << >>,
       << Variable(FALSE, "global", TRUE, 64, 0, NULL),
          Variable(FALSE, "global", FALSE, 72, 1, NULL) >>)

\* the dimensions of the arrays: none, one, several, and some whose product
\* does not fit 32 bits
ArrayDims ==
    {<< >>, <<0>>, <<7>>, <<4, 3>>, <<3, 5, 7>>, <<1024, 1024, 1024>>,
     <<65536, 65536>>, <<65536, 65537>>, <<65536, 32768>>, <<70000, 70000>>,
     <<1024, 1024, 1024, 4>>, <<2147483647, 2>>, <<2147483647, 2147483647>>}

\* a CU of the kernel image: int; an array of int with the dimensions dims
Cu_a(dims) ==
    Cu("a", "vmlinux",
       << T_int,
          [Tag("array_type", 1, NO_NAME) EXCEPT !.nr_entries = dims] >>,
       << >>,
       << >>)

\* ------------------------------------------------------------------ environment

\* What the environment does to one call: btf_elf__new returns NULL, realloc
\* or malloc returns NULL, the op-th operation of the writer is rejected
\* (op = 0: none), and how qsort orders elements that compare equal.
Env(new, realloc, malloc, op) ==
    [new |-> new, realloc |-> realloc, malloc |-> malloc, op |-> op]

EnvOk == Env(FALSE, FALSE, FALSE, 0)

Envs ==
    {EnvOk, Env(TRUE, FALSE, FALSE, 0), Env(FALSE, TRUE, FALSE, 0),
     Env(FALSE, FALSE, TRUE, 0)}
    \cup {Env(FALSE, FALSE, FALSE, k) : k \in 1..MaxFailOp}

TieBreaks == {"stable", "reversed"}

\* ------------------------------------------------------------------ the writer (libbtf)

\* The computation state threaded through one call: the program's globals,
\* the environment of the call (env, tie, ops: the writer operations so far),
\* the return value of the last operation (ret, yes) and the call's record
\* (fl: the local of collect_symbols;
\* flushed: what btf_elf__encode committed; opened: btf_elf__new made a
\* writer; collected: collect_symbols ran; core_id, off: the tag at hand).
Globals ==
    [btfe |-> btfe, functions |-> functions, functions_alloc |-> functions_alloc,
     percpu_vars |-> percpu_vars,
     has_index_type |-> has_index_type, need_index_type |-> need_index_type,
     array_index_id |-> array_index_id,
     btf_elf__verbose |-> btf_elf__verbose, btf_elf__force |-> btf_elf__force]

\* struct funcs_layout fl = { }
FuncsLayout0 ==
    [mcount_start |-> 0, mcount_stop |-> 0, init_begin |-> 0, init_end |-> 0,
     init_bpf_begin |-> 0, init_bpf_end |-> 0, mcount_sec_idx |-> 0]

Call(g, env, tie) ==
    [btfe |-> g.btfe, functions |-> g.functions,
     functions_alloc |-> g.functions_alloc, percpu_vars |-> g.percpu_vars,
     has_index_type |-> g.has_index_type, need_index_type |-> g.need_index_type,
     array_index_id |-> g.array_index_id,
     btf_elf__verbose |-> g.btf_elf__verbose, btf_elf__force |-> g.btf_elf__force,
     env |-> env, tie |-> tie, ops |-> 0, ret |-> 0, yes |-> FALSE, err |-> 0,
     flushed |-> << >>, opened |-> FALSE, collected |-> FALSE, drift |-> FALSE,
     core_id |-> 0, off |-> 0, fl |-> FuncsLayout0]

\* one record of the BTF type section; core_id and off say which tag of the
\* type pass it was emitted for (core_id = 0: none)
Rec(kind, name, type) ==
    [id |-> 0, kind |-> kind, name |-> name, type |-> type, size |-> 0,
     kflag |-> FALSE, members |-> << >>, index_type |-> 0, nelems |-> 0,
     linkage |-> "", secinfo |-> << >>, core_id |-> 0, off |-> 0]

Rejects(G) == G.env.op = G.ops + 1

\* btf_elf__new: a writer for filename, with no types yet (no base BTF)
btf_elf__new(G, filename) ==
    IF G.env.new THEN [G EXCEPT !.btfe = NULL]
    ELSE [G EXCEPT !.opened = TRUE,
                   !.btfe = [filename |-> filename,
                             symtab |-> [syms |-> ElfOf(filename).symtab],
                             percpu_shndx |-> ElfOf(filename).percpu_shndx,
                             percpu_base_addr |-> ElfOf(filename).percpu_base_addr,
                             nr_types |-> 0, types |-> << >>,
                             percpu_secinfo |-> << >>, rejected |-> FALSE]]

\* btf_elf__delete(btfe) followed by btfe = NULL
btf_elf__delete(G) == [G EXCEPT !.btfe = NULL]

btf__get_nr_types(G) == G.btfe.nr_types

\* every add_* operation that makes a type: the new type gets the next ID, or
\* the writer rejects the operation and returns a negative value
btf_elf__add_type(G, rec) ==
    IF Rejects(G)
    THEN [G EXCEPT !.ops = @ + 1, !.ret = -1, !.btfe.rejected = TRUE]
    ELSE LET id == G.btfe.nr_types + 1 IN
         [G EXCEPT !.ops = @ + 1, !.ret = id, !.btfe.nr_types = id,
                   !.btfe.types = Append(@, [rec EXCEPT !.id = id,
                                                        !.core_id = G.core_id,
                                                        !.off = G.off])]

btf_elf__add_base_type(G, bt, name) ==
    btf_elf__add_type(G, [Rec("INT", name, 0) EXCEPT !.size = bt.size])

btf_elf__add_ref_type(G, kind, type, name, kind_flag) ==
    btf_elf__add_type(G, [Rec(kind, name, type) EXCEPT !.kflag = kind_flag])

btf_elf__add_struct(G, kind, name, size) ==
    btf_elf__add_type(G, [Rec(kind, name, 0) EXCEPT !.size = size])

btf_elf__add_enum(G, name, size) ==
    btf_elf__add_type(G, [Rec("ENUM", name, 0) EXCEPT !.size = size])

btf_elf__add_array(G, type, index_type, nelems) ==
    btf_elf__add_type(G, [Rec("ARRAY", NO_NAME, type) EXCEPT
                              !.index_type = index_type, !.nelems = nelems])

\* the prototype's return type and parameter types are offset by type_id_off,
\* type 0 staying 0
btf_elf__add_func_proto(G, cu, ftype, type_id_off) ==
    LET ref(t) == IF t = 0 THEN 0 ELSE type_id_off + t IN
    btf_elf__add_type(G, [Rec("FUNC_PROTO", NO_NAME, ref(ftype.type)) EXCEPT
        !.members = [i \in 1..Len(ftype.parms) |->
                        [name |-> ftype.parms[i].name,
                         type |-> ref(ftype.parms[i].type)]]])

btf_elf__add_var_type(G, type, name, linkage) ==
    btf_elf__add_type(G, [Rec("VAR", name, type) EXCEPT !.linkage = linkage])

btf_elf__add_datasec_type(G, section_name, secinfo) ==
    btf_elf__add_type(G, [Rec("DATASEC", section_name, 0) EXCEPT
                              !.secinfo = secinfo])

\* add_member and add_enum_val extend the type added last; 0 or negative
btf_elf__add_member(G, name, type, bitfield_size, bit_offset) ==
    IF Rejects(G)
    THEN [G EXCEPT !.ops = @ + 1, !.ret = -1, !.btfe.rejected = TRUE]
    ELSE [G EXCEPT !.ops = @ + 1, !.ret = 0,
                   !.btfe.types[Len(G.btfe.types)].members =
                       Append(@, [name |-> name, type |-> type,
                                  bitfield_size |-> bitfield_size,
                                  bit_offset |-> bit_offset])]

btf_elf__add_enum_val(G, name, value) ==
    IF Rejects(G)
    THEN [G EXCEPT !.ops = @ + 1, !.ret = -1, !.btfe.rejected = TRUE]
    ELSE [G EXCEPT !.ops = @ + 1, !.ret = 0,
                   !.btfe.types[Len(G.btfe.types)].members =
                       Append(@, [name |-> name, value |-> value])]

btf_elf__add_var_secinfo(G, id, offset, size) ==
    IF Rejects(G)
    THEN [G EXCEPT !.ops = @ + 1, !.ret = -1, !.btfe.rejected = TRUE]
    ELSE [G EXCEPT !.ops = @ + 1, !.ret = 0,
                   !.btfe.percpu_secinfo =
                       Append(@, [type |-> id, offset |-> offset, size |-> size])]

\* btf_elf__encode: the flush; it commits the writer's types to the object
\* file, or fails and commits nothing
btf_elf__encode(G, flags) ==
    IF Rejects(G)
    THEN [G EXCEPT !.ops = @ + 1, !.ret = -1]
    ELSE [G EXCEPT !.ops = @ + 1, !.ret = 0,
                   !.flushed = Append(@, [filename |-> G.btfe.filename,
                                          types |-> G.btfe.types,
                                          rejected |-> G.btfe.rejected])]

\* ------------------------------------------------------------------ qsort, bsearch

functions_cmp(a, b) == strcmp(a.name, b.name)

addrs_cmp(a, b) == IF a = b THEN 0 ELSE IF a < b THEN -1 ELSE 1

percpu_var_cmp(a, b) ==
    IF a.addr = b.addr THEN 0 ELSE IF a.addr < b.addr THEN -1 ELSE 1

\* the call (*compar)(a, b) through the function pointer handed to qsort or
\* bsearch
compar(cmp, a, b) ==
    CASE cmp = "functions_cmp" -> functions_cmp(a, b)
      [] cmp = "addrs_cmp" -> addrs_cmp(a, b)
      [] cmp = "percpu_var_cmp" -> percpu_var_cmp(a, b)

\* insertion of x into the sorted sequence q, before (before = TRUE) or after
\* the elements that compare equal to it
InsertSorted(q, x, before, cmp) ==
    LET k == Cardinality({i \in 1..Len(q) :
                            \E c \in {compar(cmp, q[i], x)} :
                                c < 0 \/ (~before /\ c = 0)}) IN
    SubSeq(q, 1, k) \o << x >> \o SubSeq(q, k + 1, Len(q))

\* qsort: the elements in comparator order; the C standard leaves the order
\* of elements that compare equal unspecified: tie picks one of two orders
qsort(base, tie, cmp) ==
    LET srt[n \in 0..Len(base)] ==
            IF n = 0 THEN << >>
            ELSE InsertSorted(srt[n - 1], base[n], tie = "reversed", cmp) IN
    srt[Len(base)]

\* bsearch as glibc does it: bisection of base[l..u-1] (0-based); the result
\* is the 1-based index of the element found, 0 for a null result
bsearch(key, base, nmemb, cmp) ==
    LET bs[l \in 0..nmemb, u \in 0..nmemb] ==
            IF l >= u THEN 0
            ELSE LET idx == (l + u) \div 2
                     c == compar(cmp, key, base[idx + 1]) IN
                 IF c < 0 THEN bs[l, idx]
                 ELSE IF c > 0 THEN bs[idx + 1, u]
                 ELSE idx + 1 IN
    bs[0, nmemb]

\* ------------------------------------------------------------------ function table

delete_functions(G) == [G EXCEPT !.functions = << >>, !.functions_alloc = 0]

max(x, y) == IF x < y THEN y ELSE x

collect_function(G, sym) ==
    IF sym.type # "FUNC" THEN [G EXCEPT !.ret = 0]
    ELSE IF sym.st_value = 0 THEN [G EXCEPT !.ret = 0]
    ELSE IF Len(G.functions) = G.functions_alloc /\ G.env.realloc
         THEN [G EXCEPT !.ret = -1,
                        !.functions_alloc = max(1000, (@ * 3) \div 2)]
    ELSE [G EXCEPT
            !.ret = 0,
            !.functions_alloc =
                IF Len(G.functions) = @ THEN max(1000, (@ * 3) \div 2) ELSE @,
            !.functions = Append(@, [name |-> sym.name, addr |-> sym.st_value,
                                     generated |-> FALSE])]

\* a layout without a bpf-preserve-type range
is_bpf_init_none(fl, addr) == FALSE

is_init(fl, addr) == addr >= fl.init_begin /\ addr < fl.init_end

is_bpf_init(fl, addr) == addr >= fl.init_bpf_begin /\ addr < fl.init_bpf_end

\* the for loop of filter_functions: i is the 1-based index of the entry at
\* hand, valid the entries kept so far (functions[0..functions_valid-1])
RECURSIVE filter_functions_loop(_, _, _, _, _)
filter_functions_loop(fns, fl, addrs, i, valid) ==
    IF i > Len(fns) THEN valid
    ELSE LET func == fns[i] IN
         IF is_init(fl, func.addr) /\ ~is_bpf_init(fl, func.addr)
         THEN filter_functions_loop(fns, fl, addrs, i + 1, valid)
         ELSE IF bsearch(func.addr, addrs, Len(addrs), "addrs_cmp") # 0
         THEN filter_functions_loop(fns, fl, addrs, i + 1, Append(valid, func))
         ELSE filter_functions_loop(fns, fl, addrs, i + 1, valid)

filter_functions(G, fl) ==
    LET elf == ElfOf(G.btfe.filename) IN
    IF fl.mcount_sec_idx \notin DOMAIN elf.sections THEN [G EXCEPT !.ret = -1]
    ELSE LET shdr == elf.sections[fl.mcount_sec_idx]
             offset == fl.mcount_start - shdr.sh_addr
             count == (fl.mcount_stop - fl.mcount_start) \div 8 IN
         IF G.env.malloc THEN [G EXCEPT !.ret = -1]
         ELSE LET addrs == qsort(SubSeq(shdr.words, offset \div 8 + 1,
                                        offset \div 8 + count),
                                 G.tie, "addrs_cmp") IN
              [G EXCEPT !.ret = 0,
                        !.functions =
                            filter_functions_loop(@, fl, addrs, 1, << >>)]

\* a selection that does not look at the generated flag
should_generate_function_again(G, name) ==
    LET p == bsearch([name |-> name], G.functions, Len(G.functions),
                     "functions_cmp") IN
    IF p = 0 THEN [G EXCEPT !.yes = FALSE]
    ELSE [G EXCEPT !.yes = TRUE, !.functions[p].generated = TRUE]

\* p->generated of the entry bsearch finds for name; yes is the return value
should_generate_function(G, name) ==
    LET p == bsearch([name |-> name], G.functions, Len(G.functions),
                     "functions_cmp") IN
    IF p = 0 \/ G.functions[p].generated THEN [G EXCEPT !.yes = FALSE]
    ELSE [G EXCEPT !.yes = TRUE, !.functions[p].generated = TRUE]

\* ------------------------------------------------------------------ per-CPU table

MAX_PERCPU_VAR_CNT == 4096

\* a lookup that finds the first entry for every address
percpu_var_exists_first(G, addr) == IF Len(G.percpu_vars) = 0 THEN 0 ELSE 1

\* the 1-based index of the entry found, 0 when the function returns false
percpu_var_exists(G, addr) ==
    bsearch([addr |-> addr], G.percpu_vars, Len(G.percpu_vars), "percpu_var_cmp")

\* a collector of a table without a limit
collect_percpu_var_grow(G, sym) ==
    IF sym.st_shndx # G.btfe.percpu_shndx THEN [G EXCEPT !.ret = 0]
    ELSE IF sym.type # "OBJECT" THEN [G EXCEPT !.ret = 0]
    ELSE IF sym.st_value = 0 THEN [G EXCEPT !.ret = 0]
    ELSE IF sym.st_size = 0 THEN [G EXCEPT !.ret = 0]
    ELSE IF ~btf_name_valid(sym.name)
         THEN IF G.btf_elf__force THEN [G EXCEPT !.ret = 0]
              ELSE [G EXCEPT !.ret = -1]
    ELSE
    [G EXCEPT !.ret = 0,
              !.percpu_vars = Append(@, [addr |-> sym.st_value,
                                         sz |-> sym.st_size,
                                         name |-> sym.name])]

collect_percpu_var(G, sym) ==
    IF sym.st_shndx # G.btfe.percpu_shndx THEN [G EXCEPT !.ret = 0]
    ELSE IF sym.type # "OBJECT" THEN [G EXCEPT !.ret = 0]
    ELSE IF sym.st_value = 0 THEN [G EXCEPT !.ret = 0]
    ELSE IF sym.st_size = 0 THEN [G EXCEPT !.ret = 0]
    ELSE IF ~btf_name_valid(sym.name)
         THEN IF G.btf_elf__force THEN [G EXCEPT !.ret = 0]
              ELSE [G EXCEPT !.ret = -1]
    ELSE IF Len(G.percpu_vars) = MAX_PERCPU_VAR_CNT THEN [G EXCEPT !.ret = -1]
    ELSE [G EXCEPT !.ret = 0,
                   !.percpu_vars = Append(@, [addr |-> sym.st_value,
                                              sz |-> sym.st_size,
                                              name |-> sym.name])]

\* ------------------------------------------------------------------ symbol collector

collect_symbol(sym, fl) ==
    LET is(n) == n = sym.name IN   \* !strcmp(n, elf_sym__name(sym))
    [fl EXCEPT
       !.mcount_sec_idx = IF fl.mcount_start = 0 /\ is(N_start_mcount_loc)
                          THEN sym.st_shndx ELSE @,
       !.mcount_start = IF @ = 0 /\ is(N_start_mcount_loc) THEN sym.st_value ELSE @,
       !.mcount_stop = IF @ = 0 /\ is(N_stop_mcount_loc) THEN sym.st_value ELSE @,
       !.init_begin = IF @ = 0 /\ is(N_init_begin) THEN sym.st_value ELSE @,
       !.init_end = IF @ = 0 /\ is(N_init_end) THEN sym.st_value ELSE @,
       !.init_bpf_begin = IF @ = 0 /\ is(N_init_bpf_begin) THEN sym.st_value ELSE @,
       !.init_bpf_end = IF @ = 0 /\ is(N_init_bpf_end) THEN sym.st_value ELSE @]

\* a check that looks at the two mcount anchors only
has_all_symbols_mcount(fl) == fl.mcount_start # 0 /\ fl.mcount_stop # 0

has_all_symbols(fl) ==
    /\ fl.mcount_start # 0 /\ fl.mcount_stop # 0
    /\ fl.init_begin # 0 /\ fl.init_end # 0
    /\ fl.init_bpf_begin # 0 /\ fl.init_bpf_end # 0

\* the elf_symtab__for_each_symbol loop of collect_symbols: i is the 1-based
\* index of the symbol at hand, G.fl the local fl; G.ret # 0 when a collector
\* failed and the loop was left
RECURSIVE collect_symbols_loop(_, _, _)
collect_symbols_loop(G, collect_percpu_vars, i) ==
    IF i > Len(G.btfe.symtab.syms) THEN [G EXCEPT !.ret = 0]
    ELSE LET sym == G.btfe.symtab.syms[i]
             \* G2: after collect_function
             function_collected(G2) ==
                 IF G2.ret # 0 THEN [G2 EXCEPT !.ret = -1]
                 ELSE collect_symbols_loop(
                          [G2 EXCEPT !.fl = collect_symbol(sym, @)],
                          collect_percpu_vars, i + 1)
             \* G1: after collect_percpu_var, when asked for
             percpu_var_collected(G1) ==
                 IF G1.ret # 0 THEN [G1 EXCEPT !.ret = -1]
                 ELSE function_collected(collect_function(G1, sym)) IN
         percpu_var_collected(IF collect_percpu_vars
                              THEN collect_percpu_var(G, sym)
                              ELSE [G EXCEPT !.ret = 0])

collect_symbols(G, collect_percpu_vars) ==
    LET \* G4: after filter_functions
        filtered(G4) ==
            IF G4.ret # 0 THEN [G4 EXCEPT !.ret = -1] ELSE [G4 EXCEPT !.ret = 0]
        \* G2: after the loop and the sort of the per-CPU table
        percpu_sorted(G2) ==
            IF Len(G2.functions) # 0 /\ has_all_symbols(G2.fl)
            THEN filtered(filter_functions(
                     [G2 EXCEPT !.functions = qsort(@, G.tie, "functions_cmp")],
                     G2.fl))
            ELSE [delete_functions(G2) EXCEPT !.ret = 0]
        \* G1: after the loop over the symbols
        looped(G1) ==
            IF G1.ret # 0 THEN G1
            ELSE percpu_sorted(
                     IF collect_percpu_vars /\ Len(G1.percpu_vars) # 0
                     THEN [G1 EXCEPT !.percpu_vars = qsort(@, G.tie, "percpu_var_cmp")]
                     ELSE G1) IN
    looped(collect_symbols_loop([G EXCEPT !.percpu_vars = << >>,
                                          !.collected = TRUE,
                                          !.fl = FuncsLayout0],
                                collect_percpu_vars, 1))

\* ------------------------------------------------------------------ type encoder

\* a drift check that never reports a drift
tag__check_id_drift_none(tag, core_id, btf_type_id, type_id_off) == 0

\* 0 when the IDs agree, -1 on drift
tag__check_id_drift(tag, core_id, btf_type_id, type_id_off) ==
    IF btf_type_id # core_id + type_id_off THEN -1 ELSE 0

\* the type__for_each_data_member loop: i is the 1-based index of the member
RECURSIVE structure_type__encode_loop(_, _, _, _, _)
structure_type__encode_loop(G, tag, type_id_off, type_id, i) ==
    IF i > Len(tag.members) THEN [G EXCEPT !.ret = type_id]
    ELSE LET pos == tag.members[i]
             \* G1: after btf_elf__add_member
             member_added(G1) ==
                 IF G1.ret # 0 THEN [G1 EXCEPT !.ret = -1]
                 ELSE structure_type__encode_loop(G1, tag, type_id_off, type_id,
                                                  i + 1) IN
         member_added(btf_elf__add_member(G, pos.name, type_id_off + pos.type,
                                          pos.bitfield_size, pos.bit_offset))

structure_type__encode(G, cu, tag, type_id_off) ==
    LET kind == IF tag.tag = "union_type" THEN "UNION" ELSE "STRUCT"
        \* G1: after btf_elf__add_struct; G1.ret is type_id
        struct_added(G1) ==
            IF G1.ret < 0 THEN G1
            ELSE structure_type__encode_loop(G1, tag, type_id_off, G1.ret, 1) IN
    struct_added(btf_elf__add_struct(G, kind, tag.name, tag.size))

\* a uint32_t value, kept as its two 16-bit halves; n is below 2^31
uint32(n) == [hi |-> n \div 65536, lo |-> n % 65536]

\* a * b in uint32_t: the low 32 bits of the product
uint32_mul(a, b) ==
    LET \* the low 16 bits of x * y, x and y below 2^16
        mul16(x, y) == (x * (y % 256) + 256 * ((x * (y \div 256)) % 256)) % 65536
        p0 == a.lo * (b.lo % 256)
        p1 == a.lo * (b.lo \div 256)
        low == p0 + 256 * (p1 % 256) IN
    [hi |-> (low \div 65536 + p1 \div 256 + mul16(a.hi, b.lo)
             + mul16(a.lo, b.hi)) % 65536,
     lo |-> low % 65536]

\* nelem after the loop over the dimensions i..0 (0-based), in uint32_t
RECURSIVE array_type__nelems_loop(_, _, _)
array_type__nelems_loop(tag, i, nelem) ==
    IF i < 0 THEN nelem
    ELSE array_type__nelems_loop(tag, i - 1,
                                 uint32_mul(nelem, uint32(tag.nr_entries[i + 1])))

\* an element count that is the first dimension
array_type__nelems_first(tag) ==
    IF Len(tag.nr_entries) = 0 THEN uint32(1) ELSE uint32(tag.nr_entries[1])

array_type__nelems(tag) ==
    array_type__nelems_loop(tag, Len(tag.nr_entries) - 1, uint32(1))

RECURSIVE enumeration_type__encode_loop(_, _, _, _)
enumeration_type__encode_loop(G, tag, type_id, i) ==
    IF i > Len(tag.enumerators) THEN [G EXCEPT !.ret = type_id]
    ELSE LET pos == tag.enumerators[i]
             \* G1: after btf_elf__add_enum_val
             val_added(G1) ==
                 IF G1.ret # 0 THEN [G1 EXCEPT !.ret = -1]
                 ELSE enumeration_type__encode_loop(G1, tag, type_id, i + 1) IN
         val_added(btf_elf__add_enum_val(G, pos.name, pos.value))

enumeration_type__encode(G, cu, tag) ==
    LET \* G1: after btf_elf__add_enum; G1.ret is type_id
        enum_added(G1) ==
            IF G1.ret < 0 THEN G1
            ELSE enumeration_type__encode_loop(G1, tag, G1.ret, 1) IN
    enum_added(btf_elf__add_enum(G, tag.name, tag.size))

\* the BTF kind of the tags that tag__encode_btf hands to
\* btf_elf__add_ref_type with ref_type_id
RefKind(tag) ==
    CASE tag.tag = "const_type" -> "CONST"
      [] tag.tag = "pointer_type" -> "PTR"
      [] tag.tag = "restrict_type" -> "RESTRICT"
      [] tag.tag = "volatile_type" -> "VOLATILE"
      [] tag.tag = "typedef" -> "TYPEDEF"

tag__encode_btf(G, cu, tag, core_id, array_index_id_, type_id_off) ==
    LET ref_type_id == IF tag.type = 0 THEN 0
                       ELSE type_id_off + tag.type
        \* name is tag->name for a typedef, NULL for the others
        name == IF tag.tag = "typedef" THEN tag.name ELSE NO_NAME IN
    CASE tag.tag = "base_type" -> btf_elf__add_base_type(G, tag, tag.name)
      [] tag.tag \in {"const_type", "pointer_type", "restrict_type",
                      "volatile_type", "typedef"} ->
            btf_elf__add_ref_type(G, RefKind(tag), ref_type_id, name, FALSE)
      [] tag.tag \in {"structure_type", "union_type", "class_type"} ->
            IF tag.declaration
            THEN btf_elf__add_ref_type(G, "FWD", 0, tag.name,
                                       tag.tag = "union_type")
            ELSE structure_type__encode(G, cu, tag, type_id_off)
      [] tag.tag = "array_type" ->
            btf_elf__add_array([G EXCEPT !.need_index_type = TRUE],
                               ref_type_id, array_index_id_,
                               array_type__nelems(tag))
      [] tag.tag = "enumeration_type" -> enumeration_type__encode(G, cu, tag)
      [] tag.tag = "subroutine_type" ->
            btf_elf__add_func_proto(G, cu, [type |-> tag.type, parms |-> tag.parms],
                                    type_id_off)
      [] OTHER -> [G EXCEPT !.ret = -1]

\* ------------------------------------------------------------------ finalizer

\* a finalization that leaves the function table as it is
btf_encoder__encode_keep(G) ==
    LET encoded(G2) == [btf_elf__delete(G2) EXCEPT !.ret = G2.ret] IN
    encoded(btf_elf__encode(IF Len(G.btfe.percpu_secinfo) # 0
                            THEN btf_elf__add_datasec_type(G, PERCPU_SECTION,
                                                           G.btfe.percpu_secinfo)
                            ELSE G,
                            0))

\* btf_encoder__encode with an active writer; ret is the status it returns.
\* The result of btf_elf__add_datasec_type is not looked at.
btf_encoder__encode(G) ==
    LET \* G2: after btf_elf__encode; G2.ret is err
        encoded(G2) == [btf_elf__delete(delete_functions(G2)) EXCEPT !.ret = G2.ret] IN
    encoded(btf_elf__encode(IF Len(G.btfe.percpu_secinfo) # 0
                            THEN btf_elf__add_datasec_type(G, PERCPU_SECTION,
                                                           G.btfe.percpu_secinfo)
                            ELSE G,
                            0))

\* ------------------------------------------------------------------ CU driver

\* a check of the parameter names that lets every prototype pass
has_arg_names_any(cu, ftype) == TRUE

has_arg_names(cu, ftype) ==
    \A i \in 1..Len(ftype.parms) : ftype.parms[i].name # NO_NAME

\* cu__find_base_type_by_name: the core ID of the first base type of the CU
\* with that name, 0 when there is none
cu__find_base_type_by_name(cu, name) ==
    LET ids == {i \in 1..Len(cu.types_table.entries) :
                   /\ cu.types_table.entries[i] # NULL
                   /\ cu.types_table.entries[i].tag = "base_type"
                   /\ cu.types_table.entries[i].name = name} IN
    IF ids = {} THEN 0 ELSE CHOOSE i \in ids : \A j \in ids : i <= j

\* the array-index-type preparation of cu__encode_btf
PrepareIndexType(G, cu, type_id_off) ==
    IF ~G.has_index_type
    THEN LET id == cu__find_base_type_by_name(cu, N_int) IN
         IF id # 0
         THEN [G EXCEPT !.has_index_type = TRUE,
                        !.array_index_id = type_id_off + id]
         ELSE [G EXCEPT !.has_index_type = FALSE,
                        !.array_index_id =
                            type_id_off + cu.types_table.nr_entries]
    ELSE G

\* the cu__for_each_type loop: core_id runs from 1 below nr_entries, holes
\* are skipped; err is 0 or -1
RECURSIVE TypePass(_, _, _, _)
TypePass(G, cu, core_id, type_id_off) ==
    IF core_id >= cu.types_table.nr_entries THEN [G EXCEPT !.err = 0]
    ELSE LET pos == cu.types_table.entries[core_id]
             \* G1: after tag__encode_btf; G1.ret is btf_type_id
             tag_encoded(G1) ==
                 IF G1.ret < 0 THEN [G1 EXCEPT !.err = -1]
                 ELSE IF tag__check_id_drift(pos, core_id, G1.ret,
                                             type_id_off) # 0
                 THEN [G1 EXCEPT !.err = -1, !.drift = TRUE]
                 ELSE TypePass(G1, cu, core_id + 1, type_id_off) IN
         IF pos = NULL THEN TypePass(G, cu, core_id + 1, type_id_off)
         ELSE tag_encoded(tag__encode_btf([G EXCEPT !.core_id = core_id,
                                                    !.off = type_id_off],
                                          cu, pos, core_id, G.array_index_id,
                                          type_id_off))

\* a synthetic index type that is not remembered
SyntheticIndexType_again(G) ==
    IF G.need_index_type /\ ~G.has_index_type
    THEN btf_elf__add_base_type(G, [name |-> 0, size |-> 32], N_ARRAY_SIZE_TYPE)
    ELSE G

\* a synthetic index type that every CU adds
SyntheticIndexType_always(G) ==
    [btf_elf__add_base_type(G, [name |-> 0, size |-> 32], N_ARRAY_SIZE_TYPE)
     EXCEPT !.has_index_type = TRUE]

\* the synthetic index type; the result of btf_elf__add_base_type is not
\* looked at
SyntheticIndexType(G) ==
    IF G.need_index_type /\ ~G.has_index_type
    THEN [btf_elf__add_base_type(G, [name |-> 0, size |-> 32],
                                 N_ARRAY_SIZE_TYPE)
          EXCEPT !.has_index_type = TRUE]
    ELSE G

\* the cu__for_each_function loop: i is the 1-based index of the function
RECURSIVE FunctionPass(_, _, _, _)
FunctionPass(G, cu, i, type_id_off) ==
    IF i > Len(cu.functions) THEN [G EXCEPT !.err = 0]
    ELSE LET fn == cu.functions[i]
             \* G3: after btf_elf__add_ref_type(FUNC), the prototype having
             \* got btf_fnproto_id; G3.ret is btf_fn_id
             func_added(G3, btf_fnproto_id) ==
                 IF btf_fnproto_id < 0 \/ G3.ret < 0 THEN [G3 EXCEPT !.err = -1]
                 ELSE FunctionPass(G3, cu, i + 1, type_id_off)
             \* G2: after btf_elf__add_func_proto; G2.ret is btf_fnproto_id
             proto_added(G2) ==
                 func_added(btf_elf__add_ref_type(G2, "FUNC", G2.ret, fn.name,
                                                  FALSE),
                            G2.ret)
             \* G1: after the selection; G1.yes says whether to emit fn
             selected(G1) ==
                 IF ~G1.yes THEN FunctionPass(G1, cu, i + 1, type_id_off)
                 ELSE proto_added(btf_elf__add_func_proto(G1, cu, fn.proto,
                                                          type_id_off)) IN
         selected(IF Len(G.functions) # 0
                  THEN IF ~has_arg_names(cu, fn.proto)
                       THEN [G EXCEPT !.yes = FALSE]
                       ELSE should_generate_function(G, fn.name)
                  ELSE [G EXCEPT !.yes = ~(fn.declaration \/ ~fn.external)])

\* the cu__for_each_variable loop: i is the 1-based index of the variable
RECURSIVE VariablePass(_, _, _, _, _)
VariablePass(G, cu, i, type_id_off, force) ==
    IF i > Len(cu.variables) THEN [G EXCEPT !.err = 0]
    ELSE LET var0 == cu.variables[i]
             addr == var0.addr
             var == IF var0.spec # NULL THEN var0.spec ELSE var0
             p == percpu_var_exists(G, addr)
             \* G2: after btf_elf__add_var_secinfo
             secinfo_added(G2) ==
                 IF G2.ret < 0 THEN [G2 EXCEPT !.err = -1]
                 ELSE VariablePass(G2, cu, i + 1, type_id_off, force)
             \* G1: after btf_elf__add_var_type; G1.ret is id
             var_added(G1) ==
                 IF G1.ret < 0 THEN [G1 EXCEPT !.err = -1]
                 ELSE secinfo_added(btf_elf__add_var_secinfo(
                          G1, G1.ret, addr - G.btfe.percpu_base_addr,
                          G.percpu_vars[p].sz)) IN
         IF var0.declaration /\ var0.spec = NULL
         THEN VariablePass(G, cu, i + 1, type_id_off, force)
         ELSE IF var0.scope # "global" /\ var0.spec = NULL
         THEN VariablePass(G, cu, i + 1, type_id_off, force)
         ELSE IF p = 0 THEN VariablePass(G, cu, i + 1, type_id_off, force)
         ELSE IF var.type = 0
         THEN IF force THEN VariablePass(G, cu, i + 1, type_id_off, force)
              ELSE [G EXCEPT !.err = -1]
         ELSE var_added(btf_elf__add_var_type(
                  G, var.type + type_id_off, G.percpu_vars[p].name,
                  IF var.external THEN "GLOBAL_ALLOCATED" ELSE "STATIC"))

\* an exit that returns the status and tears nothing down
Out_keep(G, err) == [G EXCEPT !.ret = err]

\* the label out: of cu__encode_btf; ret is the status the call returns
Out(G, err) ==
    IF err # 0
    THEN [btf_elf__delete(delete_functions(G)) EXCEPT !.ret = err]
    ELSE [G EXCEPT !.ret = err]

\* cu__encode_btf from the snapshot of type_id_off on (lines 680-829)
EncodeCu(G, cu, verbose, force, skip_encoding_vars) ==
    LET type_id_off == btf__get_nr_types(G)
        \* G6: after the variable pass, when there is one
        variables_done(G6) == Out(G6, G6.err)
        \* G5: after the function pass
        functions_done(G5) ==
            IF G5.err # 0 THEN Out(G5, G5.err)
            ELSE IF skip_encoding_vars THEN Out(G5, 0)
            ELSE IF G5.btfe.percpu_shndx = 0 \/ G5.btfe.symtab = NULL
            THEN Out(G5, 0)
            ELSE variables_done(VariablePass(G5, cu, 1, type_id_off, force))
        \* G3: after the type pass
        types_done(G3) ==
            IF G3.err # 0 THEN Out(G3, G3.err)
            ELSE functions_done(
                     FunctionPass(SyntheticIndexType([G3 EXCEPT !.core_id = 0]),
                                  cu, 1, type_id_off)) IN
    types_done(TypePass(PrepareIndexType([G EXCEPT !.btf_elf__verbose = verbose,
                                                   !.btf_elf__force = force],
                                         cu, type_id_off),
                        cu, 1, type_id_off))

\* cu__encode_btf once the session of another file, if any, is finalized:
\* a new session is opened when there is no active writer
OpenSession(G, cu, verbose, force, skip_encoding_vars) ==
    LET \* G3: with an active writer, of this call or of an earlier one
        opened(G3) ==
            IF G3.btfe = NULL THEN G3
            ELSE EncodeCu(G3, cu, verbose, force, skip_encoding_vars)
        \* G2: after collect_symbols
        collected(G2) ==
            IF G2.ret # 0 THEN Out(G2, G2.ret)
            ELSE [G2 EXCEPT !.has_index_type = FALSE,
                            !.need_index_type = FALSE,
                            !.array_index_id = 0]
        \* G1: after btf_elf__new
        created(G1) ==
            IF G1.btfe = NULL THEN [G1 EXCEPT !.ret = -1]
            ELSE collected(collect_symbols(G1, ~skip_encoding_vars)) IN
    opened(IF G.btfe = NULL THEN created(btf_elf__new(G, cu.filename)) ELSE G)

\* a driver that does not compare the filenames
cu__encode_btf_same(G, cu, verbose, force, skip_encoding_vars) ==
    OpenSession([G EXCEPT !.ret = 0], cu, verbose, force, skip_encoding_vars)

cu__encode_btf(G, cu, verbose, force, skip_encoding_vars) ==
    LET \* G1: after btf_encoder__encode, when the filename changed
        finalized(G1) ==
            IF G1.ret # 0 THEN Out(G1, G1.ret)
            ELSE OpenSession(G1, cu, verbose, force, skip_encoding_vars) IN
    finalized(IF G.btfe # NULL /\ G.btfe.filename # cu.filename
              THEN btf_encoder__encode(G)
              ELSE [G EXCEPT !.ret = 0])

\* ------------------------------------------------------------------ state machine

\* what the last call was and the status it returned
Last(op, status) == [op |-> op, status |-> status]

\* the globals after the call that ended in R
SetGlobals(R) ==
    /\ btfe' = R.btfe
    /\ functions' = R.functions
    /\ functions_alloc' = R.functions_alloc
    /\ percpu_vars' = R.percpu_vars
    /\ has_index_type' = R.has_index_type
    /\ need_index_type' = R.need_index_type
    /\ array_index_id' = R.array_index_id
    /\ btf_elf__verbose' = R.btf_elf__verbose
    /\ btf_elf__force' = R.btf_elf__force

\* the state of the process when it starts: zero-initialised statics
InitGlobals ==
    /\ btfe = NULL
    /\ functions = << >>
    /\ functions_alloc = 0
    /\ percpu_vars = << >>
    /\ has_index_type = FALSE
    /\ need_index_type = FALSE
    /\ array_index_id = 0
    /\ btf_elf__verbose = 0
    /\ btf_elf__force = FALSE
    /\ crashed = FALSE
    /\ last = Last("start", 0)

\* the rerun harness at rest
RR0 ==
    [phase |-> "off", pos |-> 0, script |-> << >>, tie |-> "stable",
     out1 |-> << >>, out2 |-> << >>, ub |-> FALSE]

Init ==
    /\ InitGlobals
    /\ nv_name = << >>
    /\ nv_result = "none"
    /\ rr = RR0

\* whether cu__encode_btf(cu) opens a session (with success of what comes
\* before): only then does it call btf_elf__new, realloc, malloc and qsort
Opens(cu) == IF btfe = NULL THEN TRUE ELSE btfe.filename # cu.filename

Verbosity == {0}

Input(cu, verbose, force, skip_encoding_vars, env, tie) ==
    [cu |-> cu, verbose |-> verbose, force |-> force,
     skip_encoding_vars |-> skip_encoding_vars, env |-> env, tie |-> tie]

AllInputs ==
    {Input(cu, verbose, force, skip, env, tie) :
        cu \in CUs, verbose \in Verbosity, force \in BOOLEAN, skip \in BOOLEAN,
        env \in Envs, tie \in TieBreaks}

\* the calls of cu__encode_btf the loader can make in this state, each with
\* what the environment does to it
Inputs ==
    {in \in AllInputs :
        \/ Opens(in.cu)
        \/ in.tie = "stable" /\ ~in.env.new /\ ~in.env.realloc /\ ~in.env.malloc}

\* the computation state at the return of that call in this state
Result(in) ==
    cu__encode_btf(Call(Globals, in.env, in.tie), in.cu, in.verbose, in.force,
                   in.skip_encoding_vars)

\* the calls of btf_encoder__encode in this state (an active writer)
FinalInputs == {Env(FALSE, FALSE, FALSE, k) : k \in 0..2}

FinalResult(env) == btf_encoder__encode(Call(Globals, env, "stable"))

CanEncodeCu ==
    /\ ~crashed
    /\ IF btfe = NULL THEN TRUE ELSE btfe.nr_types < MaxTypes

\* the loader calls cu__encode_btf(cu, verbose, force, skip_encoding_vars)
CuEncodeBtf ==
    /\ CanEncodeCu
    /\ \E in \in Inputs : \E R \in {Result(in)} :
         /\ SetGlobals(R)
         /\ last' = Last("cu__encode_btf", R.ret)
    /\ UNCHANGED <<crashed, nv_name, nv_result, rr>>

\* the loader calls btf_encoder__encode() while a writer is active
BtfEncoderEncode ==
    /\ ~crashed
    /\ btfe # NULL
    /\ \E env \in FinalInputs : \E R \in {FinalResult(env)} :
         /\ SetGlobals(R)
         /\ last' = Last("btf_encoder__encode", R.ret)
    /\ UNCHANGED <<crashed, nv_name, nv_result, rr>>

\* the loader calls btf_encoder__encode() while btfe is NULL: the function
\* reads btfe->percpu_secinfo through the null pointer, which is undefined:
\* the process is killed, or the read goes through and the call returns some
\* status without a writer to work on
BtfEncoderEncodeNull ==
    /\ ~crashed
    /\ btfe = NULL
    /\ \E killed \in BOOLEAN, status \in {-1, 0} :
         /\ crashed' = killed
         /\ last' = Last("btf_encoder__encode(NULL)", IF killed THEN -1 ELSE status)
    /\ UNCHANGED <<btfe, functions, functions_alloc, percpu_vars, has_index_type,
                   need_index_type, array_index_id, btf_elf__verbose,
                   btf_elf__force, nv_name, nv_result, rr>>

Next == CuEncodeBtf \/ BtfEncoderEncode \/ BtfEncoderEncodeNull

Spec == Init /\ [][Next]_vars

\* ------------------------------------------------------------------ the name validator alone

\* a name of len characters: first, then fill, with odd at offset pos - 1
\* (pos = 0 or 1: no odd character)
Name(len, first, fill, pos, odd) ==
    [i \in 1..len |-> IF i = 1 THEN first ELSE IF i = pos THEN odd ELSE fill]

\* 'a' 'Z' '_' '.' '1' '-'
FirstChars == {97, 90, 95, 46, 49, 45}

\* '9' '.' '-' ' '
OddChars == {57, 46, 45, 32}

Names ==
    {Name(len, first, 98, pos, odd) :
        len \in 0..MaxNameLen, first \in FirstChars, pos \in {0, 2, 127, 128},
        odd \in OddChars}

InitName ==
    /\ InitGlobals
    /\ nv_name \in Names
    /\ nv_result = "none"
    /\ rr = RR0

\* a caller hands nv_name to btf_name_valid
BtfNameValid ==
    /\ nv_result = "none"
    /\ nv_result' = IF btf_name_valid(nv_name) THEN "valid" ELSE "invalid"
    /\ UNCHANGED <<btfe, functions, functions_alloc, percpu_vars, has_index_type,
                   need_index_type, array_index_id, btf_elf__verbose,
                   btf_elf__force, crashed, last, nv_name, rr>>

NextName == BtfNameValid

SpecName == InitName /\ [][NextName]_vars

\* ------------------------------------------------------------------ one sequence of calls, run twice

CuNamed(name) == CHOOSE cu \in CUs : cu.name = name

\* one cu__encode_btf call of a script, the CU given by its name
ScriptInputs ==
    [cu : {cu.name : cu \in CUs}, verbose : Verbosity, force : BOOLEAN,
     skip_encoding_vars : BOOLEAN]

Scripts == UNION {[1..n -> ScriptInputs] : n \in 1..MaxScript}

InitRerun ==
    /\ InitGlobals
    /\ nv_name = << >>
    /\ nv_result = "none"
    /\ \E script \in Scripts, tie \in TieBreaks :
         rr = [RR0 EXCEPT !.phase = "run1", !.pos = 1, !.script = script,
                          !.tie = tie]

\* what a call of a run showed: its status and what it committed
Shown(op, status, flushed) == [op |-> op, status |-> status, flushed |-> flushed]

\* rr after the call at hand showed sh; the finalize call ends the run
Advance(sh, ends, ub) ==
    LET r1 == IF rr.phase = "run1" THEN [rr EXCEPT !.out1 = Append(@, sh)]
              ELSE [rr EXCEPT !.out2 = Append(@, sh)]
        r2 == [r1 EXCEPT !.ub = @ \/ ub] IN
    IF ~ends THEN [r2 EXCEPT !.pos = @ + 1]
    ELSE IF rr.phase = "run1" THEN [r2 EXCEPT !.phase = "run2", !.pos = 1]
    ELSE [r2 EXCEPT !.phase = "done", !.pos = 0]

Running == rr.phase \in {"run1", "run2"} /\ ~crashed

\* the next cu__encode_btf call of the script; nothing fails in the
\* environment, in either run
RerunCu ==
    /\ Running
    /\ rr.pos <= Len(rr.script)
    /\ \E R \in {cu__encode_btf(Call(Globals, EnvOk, rr.tie),
                                CuNamed(rr.script[rr.pos].cu),
                                rr.script[rr.pos].verbose,
                                rr.script[rr.pos].force,
                                rr.script[rr.pos].skip_encoding_vars)} :
         /\ SetGlobals(R)
         /\ last' = Last("cu__encode_btf", R.ret)
         /\ rr' = Advance(Shown("cu__encode_btf", R.ret, R.flushed), FALSE, FALSE)
    /\ UNCHANGED <<crashed, nv_name, nv_result>>

\* the finalize that ends the run, with an active writer
RerunFinalize ==
    /\ Running
    /\ rr.pos = Len(rr.script) + 1
    /\ btfe # NULL
    /\ \E R \in {btf_encoder__encode(Call(Globals, EnvOk, rr.tie))} :
         /\ SetGlobals(R)
         /\ last' = Last("btf_encoder__encode", R.ret)
         /\ rr' = Advance(Shown("btf_encoder__encode", R.ret, R.flushed), TRUE, FALSE)
    /\ UNCHANGED <<crashed, nv_name, nv_result>>

\* the finalize that ends the run, btfe being NULL: undefined, as in
\* BtfEncoderEncodeNull
RerunFinalizeNull ==
    /\ Running
    /\ rr.pos = Len(rr.script) + 1
    /\ btfe = NULL
    /\ \E killed \in BOOLEAN, status \in {-1, 0} :
         /\ crashed' = killed
         /\ last' = Last("btf_encoder__encode(NULL)", IF killed THEN -1 ELSE status)
         /\ rr' = Advance(Shown("btf_encoder__encode", IF killed THEN -1 ELSE status,
                                << >>), TRUE, TRUE)
    /\ UNCHANGED <<btfe, functions, functions_alloc, percpu_vars, has_index_type,
                   need_index_type, array_index_id, btf_elf__verbose,
                   btf_elf__force, nv_name, nv_result>>

NextRerun == RerunCu \/ RerunFinalize \/ RerunFinalizeNull

SpecRerun == InitRerun /\ [][NextRerun]_vars

\* ------------------------------------------------------------------ images with other symbol tables

\* the calls of cu__encode_btf for the CUs of these images; the allocations
\* of symbol collection can fail
SymInputs ==
    {Input(cu, 0, force, skip, env, tie) :
        cu \in {Cu_s(filename) : filename \in SymFilenames \cup Filenames}
                \cup {Cu_t(filename) : filename \in Filenames},
        force \in BOOLEAN, skip \in BOOLEAN,
        env \in {EnvOk, Env(FALSE, TRUE, FALSE, 0), Env(FALSE, FALSE, TRUE, 0)},
        tie \in TieBreaks}

\* the loader calls cu__encode_btf for a CU of one of these images
SymCuEncodeBtf ==
    /\ CanEncodeCu
    /\ \E in \in SymInputs : \E R \in {Result(in)} :
         /\ SetGlobals(R)
         /\ last' = Last("cu__encode_btf", R.ret)
    /\ UNCHANGED <<crashed, nv_name, nv_result, rr>>

NextSyms == SymCuEncodeBtf \/ BtfEncoderEncode

SpecSyms == Init /\ [][NextSyms]_vars

\* ------------------------------------------------------------------ CUs with per-CPU variables

\* the calls of cu__encode_btf for the CUs with per-CPU variables; the writer
\* can reject one of the first operations of a call
VarInputs ==
    {Input(cu, 0, force, skip, env, "stable") :
        cu \in {Cu_v(filename) : filename \in VarFilenames}
                \cup {Cu_w(filename) : filename \in VarFilenames},
        force \in BOOLEAN, skip \in BOOLEAN,
        env \in {Env(FALSE, FALSE, FALSE, k) : k \in 0..MaxFailOp}}

\* the loader calls cu__encode_btf for one of these CUs
VarCuEncodeBtf ==
    /\ CanEncodeCu
    /\ \E in \in VarInputs : \E R \in {Result(in)} :
         /\ SetGlobals(R)
         /\ last' = Last("cu__encode_btf", R.ret)
    /\ UNCHANGED <<crashed, nv_name, nv_result, rr>>

NextVars == VarCuEncodeBtf \/ BtfEncoderEncode

SpecVars == Init /\ [][NextVars]_vars

\* ------------------------------------------------------------------ filter_functions on its own

\* the entries of the tables: the four function names at an address that is
\* traced (16), not traced (40), traced and in the init range (210), or in
\* the bpf-preserve-type range (260; traced in the image vmlinux.bpf only)
FilterEntries ==
    {[name |-> name, addr |-> addr, generated |-> FALSE] :
        name \in {N_bar, N_foo, N_ini, N_notr}, addr \in {16, 40, 210, 260}}

\* the tables as collect_symbols leaves them for filter_functions: sorted by
\* name
FilterTables ==
    {t \in UNION {[1..n -> FilterEntries] : n \in 1..MaxFuncs} :
        \A i \in 1..(Len(t) - 1) : functions_cmp(t[i], t[i + 1]) <= 0}

\* the layouts: the mcount table is all or a part of the four words of
\* section 3 (a stop address that leaves a rest of 4 bytes among them), the
\* bpf-preserve-type range is [250, 280) or empty, and section 4 does not
\* exist
FilterLayouts ==
    {[mcount_start |-> start, mcount_stop |-> stop,
      init_begin |-> 200, init_end |-> 300,
      init_bpf_begin |-> bpf_begin, init_bpf_end |-> 280,
      mcount_sec_idx |-> idx] :
        start \in {800, 808}, stop \in {824, 828, 832},
        bpf_begin \in {250, 280}, idx \in {3, 4}}

\* the zero-initialised statics
Globals0 ==
    [btfe |-> NULL, functions |-> << >>, functions_alloc |-> 0,
     percpu_vars |-> << >>, has_index_type |-> FALSE, need_index_type |-> FALSE,
     array_index_id |-> 0, btf_elf__verbose |-> 0, btf_elf__force |-> FALSE]

\* a session on a kernel image, its function table collected and sorted
InitFilter ==
    /\ \E filename \in {"vmlinux", "vmlinux.bpf"} :
          btfe = btf_elf__new(Call(Globals0, EnvOk, "stable"), filename).btfe
    /\ functions \in FilterTables
    /\ functions_alloc = 1000
    /\ percpu_vars = << >>
    /\ has_index_type = FALSE
    /\ need_index_type = FALSE
    /\ array_index_id = 0
    /\ btf_elf__verbose = 0
    /\ btf_elf__force = FALSE
    /\ crashed = FALSE
    /\ last = Last("start", 0)
    /\ nv_name = << >>
    /\ nv_result = "none"
    /\ rr = RR0

\* collect_symbols calls filter_functions(btfe, &fl)
FilterFunctions ==
    /\ last.op = "start"
    /\ \E fl \in FilterLayouts, tie \in TieBreaks,
          env \in {EnvOk, Env(FALSE, FALSE, TRUE, 0)} :
          \E R \in {filter_functions(Call(Globals, env, tie), fl)} :
             /\ SetGlobals(R)
             /\ last' = Last("filter_functions", R.ret)
    /\ UNCHANGED <<crashed, nv_name, nv_result, rr>>

NextFilter == FilterFunctions

SpecFilter == InitFilter /\ [][NextFilter]_vars

\* ------------------------------------------------------------------ collect_percpu_var on its own

\* the symbols handed to collect_percpu_var: objects and functions, in the
\* per-CPU section of the kernel image (5) or of the module (4), with and
\* without an address and a size, one of them with an invalid name
PercpuSyms ==
    {Sym(name, value, size, shndx, type) :
        name \in {N_runq, N_cnt, N_1bad}, value \in {0, 64, 72, 80},
        size \in {0, 4}, shndx \in {4, 5}, type \in {"OBJECT", "FUNC"}}

\* collect_symbols in its loop over the symbols of an image, after n per-CPU
\* symbols were collected: the table empty, or one or no entry short of
\* MAX_PERCPU_VAR_CNT
InitPercpu ==
    /\ \E filename \in Filenames :
          btfe = btf_elf__new(Call(Globals0, EnvOk, "stable"), filename).btfe
    /\ functions = << >>
    /\ functions_alloc = 0
    /\ \E n \in {0, MAX_PERCPU_VAR_CNT - 1, MAX_PERCPU_VAR_CNT} :
          percpu_vars = [k \in 1..n |-> [addr |-> 1000 + 8 * k, sz |-> 8,
                                          name |-> N_cnt]]
    /\ has_index_type = FALSE
    /\ need_index_type = FALSE
    /\ array_index_id = 0
    /\ btf_elf__verbose = 0
    /\ btf_elf__force \in BOOLEAN
    /\ crashed = FALSE
    /\ last = Last("start", 0)
    /\ nv_name = << >>
    /\ nv_result = "none"
    /\ rr = RR0

\* collect_symbols calls collect_percpu_var(btfe, &sym) for the next symbol;
\* the loop is left when the call fails, and is followed for two symbols
\* from the empty table
CollectPercpuVar ==
    /\ last.status = 0
    /\ Len(percpu_vars) < 2 \/ Len(percpu_vars) >= MAX_PERCPU_VAR_CNT - 1
    /\ \E sym \in PercpuSyms :
          \E R \in {collect_percpu_var(Call(Globals, EnvOk, "stable"), sym)} :
             /\ SetGlobals(R)
             /\ last' = Last("collect_percpu_var", R.ret)
    /\ UNCHANGED <<crashed, nv_name, nv_result, rr>>

SpecPercpu == InitPercpu /\ [][CollectPercpuVar]_vars

\* ------------------------------------------------------------------ CUs with arrays

\* the calls of cu__encode_btf for the CUs with one array
ArrInputs ==
    {Input(Cu_a(dims), 0, FALSE, skip, EnvOk, "stable") :
        dims \in ArrayDims, skip \in BOOLEAN}

\* the loader calls cu__encode_btf for one of these CUs
ArrCuEncodeBtf ==
    /\ ~crashed
    /\ IF btfe = NULL THEN TRUE ELSE btfe.nr_types < MaxArrayTypes
    /\ \E in \in ArrInputs : \E R \in {Result(in)} :
         /\ SetGlobals(R)
         /\ last' = Last("cu__encode_btf", R.ret)
    /\ UNCHANGED <<crashed, nv_name, nv_result, rr>>

NextArrays == ArrCuEncodeBtf \/ BtfEncoderEncode

SpecArrays == Init /\ [][NextArrays]_vars

\* ------------------------------------------------------------------ properties

Range(s) == {s[i] : i \in DOMAIN s}

\* every call of cu__encode_btf the loader can make in this state, with the
\* state of the computation at its return
Calls == {[in |-> in, R |-> Result(in)] : in \in Inputs}

\* the active writer's records and their number (none without a writer)
Types == IF btfe = NULL THEN << >> ELSE btfe.types
NrTypes == IF btfe = NULL THEN 0 ELSE btfe.nr_types

\* for a call c that leaves a writer active: the writer's type count when the
\* call began to encode its CU, and the records the call added
Snapshot(c) == IF c.R.opened THEN 0 ELSE NrTypes
Added(c) == SubSeq(c.R.btfe.types, Snapshot(c) + 1, Len(c.R.btfe.types))

\* what finalization commits in this state, called by the loader or by a
\* cu__encode_btf that meets another filename
Flushed ==
    IF btfe = NULL THEN {}
    ELSE UNION {Range(FinalResult(env).flushed) : env \in FinalInputs}

\* a type table without holes
Dense(cu) ==
    \A i \in 1..Len(cu.types_table.entries) : cu.types_table.entries[i] # NULL

\* the records of types are those of at least two CUs
TwoCus(types) ==
    \E i, j \in 1..Len(types) :
        /\ types[i].core_id = 1 /\ types[j].core_id = 1
        /\ types[i].off # types[j].off

FuncRecs(types) == {i \in 1..Len(types) : types[i].kind = "FUNC"}

\* C1: every record the writer holds for a tag with core ID c has the ID
\* off + c, off being the writer's type count when the call that encoded the
\* tag began with its CU (the count of all records of the earlier CUs); a
\* call in which the writer returns another ID fails with a negative status,
\* and no such call happens for a CU whose type table is dense.
C1_IdDrift ==
    /\ NrTypes = Len(Types)
    /\ \A i \in 1..Len(Types) :
          /\ Types[i].id = i
          /\ Types[i].core_id # 0 => Types[i].id = Types[i].off + Types[i].core_id
    /\ \A c \in Calls :
          /\ c.R.drift => c.R.ret < 0
          /\ Dense(c.in.cu) => ~c.R.drift
          /\ c.R.btfe # NULL =>
                \A rec \in Range(Added(c)) :
                    rec.core_id # 0 => rec.off = Snapshot(c)
          /\ c.R.ret = 0 /\ Dense(c.in.cu) =>
                \A k \in 1..Len(c.in.cu.types_table.entries) :
                    \E rec \in Range(Added(c)) :
                        rec.core_id = k /\ rec.id = Snapshot(c) + k

\* a tag of a later CU of a session is in the writer: its offset counts the
\* records of the CUs before
C1_Witness ==
    \E i \in 1..Len(Types) : Types[i].core_id # 0 /\ Types[i].off > 0

NoDupFunc(types) ==
    \A i, j \in FuncRecs(types) : types[i].name = types[j].name => i = j

\* C2 as stated: whatever the mode, no function name is in two FUNC records
\* of a BTF that is flushed.
C2_NoDupAnyMode == \A blob \in Flushed : NoDupFunc(blob.types)

\* C2, kernel mode only: in a session with a non-empty function table, no
\* function name is in two FUNC records of the BTF that is flushed.
C2_NoDupKernelMode ==
    functions # << >> => \A blob \in Flushed : NoDupFunc(blob.types)

\* a kernel-mode session of two CUs, both with a function foo, is flushed
\* with a FUNC record for foo
C2_Witness ==
    /\ functions # << >>
    /\ \E blob \in Flushed :
          /\ TwoCus(blob.types)
          /\ \E i \in FuncRecs(blob.types) : blob.types[i].name = N_foo

\* the functions of cu that kernel mode emits in a session whose writer holds
\* the records before and whose table is table: all parameters named, the
\* name in the table, no FUNC record of that name yet
Emitted(cu, before_, table) ==
    {i \in 1..Len(cu.functions) :
        /\ \A k \in 1..Len(cu.functions[i].proto.parms) :
              cu.functions[i].proto.parms[k].name # NO_NAME
        /\ \E e \in Range(table) : e.name = cu.functions[i].name
        /\ \A r \in FuncRecs(before_) : before_[r].name # cu.functions[i].name}

\* C3: in kernel mode a successful call emits, each as a prototype followed
\* by its FUNC record, exactly the functions of its CU that have all their
\* parameters named, are in the filtered function table and were not emitted
\* by an earlier CU of the session; a table entry is flagged generated only
\* if a FUNC record of its name exists, and of the entries that share a
\* name exactly one is flagged once the name is emitted.
C3_FirstEligibleCu ==
    /\ \A c \in Calls :
          c.R.ret = 0 /\ c.R.functions # << >> =>
             LET new == Added(c)
                 old == SubSeq(c.R.btfe.types, 1, Snapshot(c))
                 want == Emitted(c.in.cu, old, c.R.functions) IN
             /\ Cardinality(FuncRecs(new)) = Cardinality(want)
             /\ \A i \in want :
                   \E r \in FuncRecs(new) : new[r].name = c.in.cu.functions[i].name
             /\ \A r \in FuncRecs(new) :
                   /\ r > 1
                   /\ new[r - 1].kind = "FUNC_PROTO"
                   /\ new[r].type = new[r - 1].id
    /\ \A p \in 1..Len(functions) :
          functions[p].generated =>
              \E r \in FuncRecs(Types) : Types[r].name = functions[p].name
    /\ functions # << >> =>
          \A r \in FuncRecs(Types) :
              Cardinality({p \in 1..Len(functions) :
                              /\ functions[p].name = Types[r].name
                              /\ functions[p].generated}) = 1

\* two CUs with foo were encoded in a session whose table holds two symbols
\* named foo: foo has one FUNC record and one of the two entries is flagged
C3_Witness ==
    /\ Cardinality({p \in 1..Len(functions) : functions[p].name = N_foo}) = 2
    /\ Cardinality({p \in 1..Len(functions) : functions[p].generated
                                               /\ functions[p].name = N_foo}) = 1
    /\ TwoCus(Types)
    /\ \E r \in FuncRecs(Types) : Types[r].name = N_bar

\* a CU the type encoder has no reason to refuse
WellFormed(cu) ==
    /\ Dense(cu)
    /\ \A i \in 1..Len(cu.types_table.entries) :
          cu.types_table.entries[i].tag \in
             {"base_type", "const_type", "pointer_type", "restrict_type",
              "volatile_type", "typedef", "structure_type", "union_type",
              "class_type", "array_type", "enumeration_type", "subroutine_type"}

\* the names of the per-CPU objects of the file that are not valid BTF names
InvalidPercpuNames(filename) ==
    {sym.name : sym \in {y \in Range(ElfOf(filename).symtab) :
                            /\ y.st_shndx = ElfOf(filename).percpu_shndx
                            /\ y.type = "OBJECT"
                            /\ ~btf_name_valid(y.name)}}

\* C4 as stated: a call with force = true that opens a session, in an
\* environment where nothing fails and for a CU the encoder accepts, does
\* not fail, and the per-CPU table it builds holds no invalid name, whatever
\* the earlier calls were.
C4_ForceOfThisCall ==
    \A c \in Calls :
        /\ c.in.force /\ Opens(c.in.cu) /\ c.in.env = EnvOk
        /\ WellFormed(c.in.cu)
        => /\ c.R.ret = 0
           /\ \A v \in Range(c.R.percpu_vars) :
                 v.name \notin InvalidPercpuNames(c.in.cu.filename)

\* C5 as stated: a script of cu__encode_btf calls and the finalize, run
\* twice in one process with nothing failing in the environment, shows the
\* same statuses and commits the same records both times (runs whose
\* finalize meets no writer, which is undefined, aside).
C5_SameTwice == rr.phase = "done" /\ ~rr.ub => rr.out1 = rr.out2

Letter(ch) == ch \in (65..90) \cup (97..122)
Digit(ch) == ch \in 48..57

\* [A-Za-z_.][A-Za-z0-9_.]{0,126}
InLanguage(name) ==
    /\ Len(name) \in 1..127
    /\ Letter(name[1]) \/ name[1] \in {95, 46}
    /\ \A i \in 2..Len(name) : Letter(name[i]) \/ Digit(name[i]) \/ name[i] \in {95, 46}

\* C6 as stated: btf_name_valid accepts a name iff it is of the language
\* [A-Za-z_.][A-Za-z0-9_.]{0,126}.
C6_ExactLanguage ==
    nv_result # "none" => (nv_result = "valid" <=> InLanguage(nv_name))

FailedCall == last.op = "cu__encode_btf" /\ last.status # 0

\* C7: after a cu__encode_btf call that returned a non-zero status the
\* function table is empty and there is no writer; the next call, unless the
\* writer cannot be created, creates one and collects the symbols, and what
\* it leaves on success is a writer of its CU's file that holds records of
\* this CU only; on failure it leaves no writer and no function table.
C7_FailureTearsDown ==
    FailedCall =>
        /\ functions = << >>
        /\ btfe = NULL
        /\ \A c \in Calls :
              IF c.in.env.new
              THEN c.R.ret # 0 /\ ~c.R.opened /\ c.R.btfe = NULL
              ELSE /\ c.R.opened /\ c.R.collected
                   /\ c.R.ret = 0 =>
                         /\ c.R.btfe # NULL
                         /\ c.R.btfe.filename = c.in.cu.filename
                         /\ \A rec \in Range(c.R.btfe.types) : rec.off = 0
                   /\ c.R.ret # 0 => c.R.btfe = NULL /\ c.R.functions = << >>

\* a call has failed, and a call that follows it can open a kernel-mode
\* session and succeed
C7_Witness ==
    /\ FailedCall
    /\ \E c \in Calls : c.R.ret = 0 /\ c.R.functions # << >>

\* C8 as stated: no writer that rejected an operation is still active after
\* the call, and nothing of a writer that rejected an operation is flushed.
C8_NoPartialCommit ==
    /\ btfe # NULL => ~btfe.rejected
    /\ \A blob \in Flushed : ~blob.rejected

\* a session boundary: after btf_encoder__encode, after a failed
\* cu__encode_btf
Boundary == last.op = "btf_encoder__encode" \/ FailedCall

Cleared ==
    [Globals EXCEPT !.percpu_vars = << >>, !.has_index_type = FALSE,
                    !.need_index_type = FALSE, !.array_index_id = 0]

ResultFrom(g, in) ==
    cu__encode_btf(Call(g, in.env, in.tie), in.cu, in.verbose, in.force,
                   in.skip_encoding_vars)

\* R1 and R2 are the same as far as a caller or a later call can tell
SameOutcome(R1, R2) ==
    /\ R1.ret = R2.ret
    /\ R1.btfe = R2.btfe
    /\ R1.functions = R2.functions
    /\ R1.flushed = R2.flushed
    /\ R1.collected = R2.collected
    /\ R1.collected => R1.percpu_vars = R2.percpu_vars
    /\ R1.ret = 0 => /\ R1.has_index_type = R2.has_index_type
                     /\ R1.need_index_type = R2.need_index_type
                     /\ R1.array_index_id = R2.array_index_id

IsPrefix(s1, s2) == Len(s1) <= Len(s2) /\ SubSeq(s2, 1, Len(s1)) = s1

\* the globals of a process that has no session and never had one, but for
\* the verbose and force settings of the last call
NoSession ==
    [Cleared EXCEPT !.btfe = NULL, !.functions = << >>, !.functions_alloc = 0]

\* the blob is the writer's types, with the per-CPU DATASEC after them if
\* there is section information
FlushOfWriter(blob) ==
    /\ blob.filename = btfe.filename
    /\ IsPrefix(Types, blob.types)
    /\ IF btfe.percpu_secinfo = << >> THEN blob.types = Types
       ELSE Len(blob.types) = Len(Types) + 1
            => blob.types[Len(blob.types)].kind = "DATASEC"
    /\ Len(blob.types) <= Len(Types) + 1

\* C10: a call for a CU of another file than the active writer's finalizes
\* that writer once (its types, then the DATASEC if any, flushed under its
\* filename); if the flush fails the call fails without a new session;
\* otherwise it opens a session for the new file, and when nothing fails in
\* the environment it ends as the same call of a process without a session
\* does (writer, function table, per-CPU table, and on success the
\* index-type variables). A call for a
\* CU of the writer's file flushes nothing and opens nothing: the writer
\* keeps its records, the function table its entries, the index type its ID.
C10_SessionSwitch ==
    btfe # NULL =>
      \A c \in Calls :
        IF btfe.filename # c.in.cu.filename
        THEN /\ Len(c.R.flushed) <= 1
             /\ c.R.flushed = << >> =>
                   c.R.ret # 0 /\ ~c.R.opened /\ c.R.btfe = NULL
             /\ c.R.flushed # << >> =>
                   /\ FlushOfWriter(c.R.flushed[1])
                   /\ c.R.opened = ~c.in.env.new
                   /\ c.R.opened => c.R.collected
                   /\ c.R.ret = 0 =>
                         /\ c.R.btfe # NULL
                         /\ c.R.btfe.filename = c.in.cu.filename
                         /\ \A rec \in Range(c.R.btfe.types) : rec.off = 0
                   /\ c.in.env = EnvOk =>
                         LET F == ResultFrom(NoSession, c.in) IN
                         /\ c.R.ret = F.ret
                         /\ c.R.btfe = F.btfe
                         /\ c.R.functions = F.functions
                         /\ c.R.percpu_vars = F.percpu_vars
                         /\ c.R.ret = 0 =>
                               /\ c.R.has_index_type = F.has_index_type
                               /\ c.R.need_index_type = F.need_index_type
                               /\ c.R.array_index_id = F.array_index_id
        ELSE /\ c.R.flushed = << >>
             /\ ~c.R.opened /\ ~c.R.collected
             /\ c.R.percpu_vars = percpu_vars
             /\ c.R.ret = 0 =>
                   /\ c.R.btfe # NULL
                   /\ c.R.btfe.filename = btfe.filename
                   /\ IsPrefix(Types, c.R.btfe.types)
                   /\ Len(c.R.functions) = Len(functions)
                   /\ \A p \in 1..Len(functions) :
                         /\ c.R.functions[p].name = functions[p].name
                         /\ functions[p].generated => c.R.functions[p].generated
                   /\ has_index_type =>
                         c.R.has_index_type /\ c.R.array_index_id = array_index_id
                   /\ need_index_type => c.R.need_index_type

\* a writer with per-CPU section information meets a CU of another file:
\* the call flushes the DATASEC with the writer's types and succeeds
C10_Witness ==
    /\ btfe # NULL
    /\ btfe.percpu_secinfo # << >>
    /\ \E c \in Calls :
          /\ btfe.filename # c.in.cu.filename
          /\ c.R.ret = 0
          /\ c.R.flushed # << >>
          /\ c.R.flushed[1].types[Len(c.R.flushed[1].types)].kind = "DATASEC"

\* every ARRAY record of types has as index type the ID of an INT record of
\* types: a base type named int, or the synthetic one
ArraysIndexed(types) ==
    \A i \in 1..Len(types) :
        types[i].kind = "ARRAY" =>
            /\ types[i].index_type \in 1..Len(types)
            /\ types[types[i].index_type].kind = "INT"
            /\ types[types[i].index_type].name \in {N_int, N_ARRAY_SIZE_TYPE}

Synthetic(types) == {i \in 1..Len(types) : types[i].name = N_ARRAY_SIZE_TYPE}

\* C12: a session's writer holds at most one __ARRAY_SIZE_TYPE__ record;
\* some ARRAY record and no base type named int come before it; in the call
\* that adds it, the records before it are the regular types of the CU and
\* the records after it are the function and variable records of the CU;
\* and when need_index_type is true after a call, so is has_index_type.
C12_SyntheticOnce ==
    /\ Cardinality(Synthetic(Types)) <= 1
    /\ \A i \in Synthetic(Types) :
          /\ Types[i].kind = "INT"
          /\ \E j \in 1..(i - 1) : Types[j].kind = "ARRAY"
          /\ \A j \in 1..(i - 1) :
                ~(Types[j].kind = "INT" /\ Types[j].name = N_int)
    /\ btfe # NULL /\ need_index_type => has_index_type
    /\ \A c \in Calls :
          c.R.btfe # NULL =>
              LET new == Added(c) IN
              \A k \in Synthetic(new) :
                  /\ k > 1
                  /\ \A j \in 1..(k - 1) : new[j].core_id = j
                  /\ \A j \in (k + 1)..Len(new) :
                        /\ new[j].core_id = 0
                        /\ new[j].kind \in {"FUNC_PROTO", "FUNC", "VAR"}

\* the synthetic type is in the writer, and an array of a later CU uses it
C12_Witness ==
    \E i \in Synthetic(Types) :
        \E j \in (i + 1)..Len(Types) :
            Types[j].kind = "ARRAY" /\ Types[j].index_type = i

\* the calls of cu__encode_btf for the images of SpecSyms, with their results
SymCalls == {[in |-> in, R |-> Result(in)] : in \in SymInputs}

\* all six anchors are symbols of the image
HasAnchors(filename) ==
    \A k \in 1..Len(Anchors) :
        \E sym \in Range(ElfOf(filename).symtab) : sym.name = Anchors[k]

\* the names of the functions of cu that standalone selection emits
Standalone(cu) ==
    {cu.functions[i].name : i \in {k \in 1..Len(cu.functions) :
                                      /\ ~cu.functions[k].declaration
                                      /\ cu.functions[k].external}}

\* C13: a non-empty function table is the table of a session whose image has
\* all six anchors; a successful call for an image that lacks an anchor
\* leaves the table empty and emits FUNC records for exactly the functions
\* of its CU that are external and not declarations.
C13_TableDiscard ==
    /\ functions # << >> => btfe # NULL /\ HasAnchors(btfe.filename)
    /\ \A c \in SymCalls :
          c.R.ret = 0 /\ ~HasAnchors(c.in.cu.filename) =>
              LET new == Added(c) IN
              /\ c.R.functions = << >>
              /\ {new[r].name : r \in FuncRecs(new)} = Standalone(c.in.cu)
              /\ Cardinality(FuncRecs(new)) = Cardinality(Standalone(c.in.cu))

\* the session of a kernel image that has anchors, but not all six, has an
\* empty table and a FUNC record for ini, which the filter would drop
C13_Witness ==
    /\ btfe # NULL
    /\ btfe.filename \in SymFilenames
    /\ ~HasAnchors(btfe.filename)
    /\ functions = << >>
    /\ \E r \in FuncRecs(Types) : Types[r].name = N_ini

\* the value of the anchor symbol named name in the image
AnchorValue(filename, name) ==
    LET syms == ElfOf(filename).symtab
        k == CHOOSE i \in 1..Len(syms) : syms[i].name = name IN
    syms[k].st_value

\* addr is in the init range and not in the bpf-preserve-type range, or is
\* not in the mcount table
InitOnlyOrUntraced(filename, addr) ==
    \/ /\ addr >= AnchorValue(filename, N_init_begin)
       /\ addr < AnchorValue(filename, N_init_end)
       /\ ~(/\ addr >= AnchorValue(filename, N_init_bpf_begin)
            /\ addr < AnchorValue(filename, N_init_bpf_end))
    \/ addr \notin Range(ElfOf(filename).sections[3].words)

\* the names of the function symbols of the image, each symbol of the name
\* being init-only or untraced
Ineligible(filename) ==
    LET fsyms == {sym \in Range(ElfOf(filename).symtab) :
                     sym.type = "FUNC" /\ sym.st_value # 0} IN
    {sym.name : sym \in {y \in fsyms :
                    \A z \in fsyms :
                        z.name = y.name =>
                            InitOnlyOrUntraced(filename, z.st_value)}}

\* C14 as stated: the writer of a session whose image has all six anchors
\* holds no FUNC record for a function whose symbols are init-only or
\* untraced.
C14_FilteredNeverEmitted ==
    btfe # NULL /\ HasAnchors(btfe.filename) =>
        \A r \in FuncRecs(Types) : Types[r].name \notin Ineligible(btfe.filename)

\* the BTF reference the spec gives to the source reference r of a CU whose
\* snapshot is off
BtfRef(off, r) == IF r = 0 THEN 0 ELSE off + r

\* the record rec of the tag maps the tag's references as BtfRef does: the
\* target of a const, pointer, restrict, volatile or typedef, the element
\* type of an array, the member types of a struct or union
RefsMapped(rec, tag) ==
    /\ rec.kind \in {"CONST", "PTR", "RESTRICT", "VOLATILE", "TYPEDEF", "ARRAY"}
          => rec.type = BtfRef(rec.off, tag.type)
    /\ rec.kind \in {"STRUCT", "UNION"} =>
          /\ Len(rec.members) = Len(tag.members)
          /\ \A m \in 1..Len(rec.members) :
                rec.members[m].type = BtfRef(rec.off, tag.members[m].type)

\* C15 as stated: every record a successful call emits for a type of its CU
\* carries 0 for a source reference 0 and type_id_off + r for a source
\* reference r # 0, member types included.
C15_VoidMapping ==
    \A c \in SymCalls :
        c.R.ret = 0 =>
            \A rec \in Range(Added(c)) :
                rec.core_id # 0 =>
                    RefsMapped(rec, c.in.cu.types_table.entries[rec.core_id])

\* no types, no functions, no variables
IsEmpty(cu) ==
    /\ cu.types_table.entries = << >>
    /\ cu.functions = << >>
    /\ cu.variables = << >>

Datasecs(types) == {i \in 1..Len(types) : types[i].kind = "DATASEC"}

VarIds(types) == {types[i].id : i \in {j \in 1..Len(types) : types[j].kind = "VAR"}}

\* C17: the active writer never holds a DATASEC record; what finalization
\* commits has no DATASEC when no section-info entry was accumulated, and
\* otherwise exactly one, as its last record, after all records of the CUs,
\* carrying the accumulated entries, which are one for each VAR record of
\* the session.
C17_DatasecLast ==
    /\ Datasecs(Types) = {}
    /\ \A c \in Calls : c.R.btfe # NULL => Datasecs(c.R.btfe.types) = {}
    /\ \A blob \in Flushed :
          /\ IsPrefix(Types, blob.types)
          /\ IF btfe.percpu_secinfo = << >>
             THEN Datasecs(blob.types) = {}
             ELSE /\ Datasecs(blob.types) = {Len(Types) + 1}
                  /\ Len(blob.types) = Len(Types) + 1
                  /\ blob.types[Len(blob.types)].secinfo = btfe.percpu_secinfo
                  /\ {e.type : e \in Range(btfe.percpu_secinfo)} = VarIds(Types)
                  /\ Cardinality(VarIds(Types)) = Len(btfe.percpu_secinfo)

\* the section-info buffer of a writer (none without a writer)
Secinfo(w) == IF w = NULL THEN << >> ELSE w.percpu_secinfo

Sorted(secinfo) ==
    \A i, j \in 1..Len(secinfo) : i < j => secinfo[i].offset <= secinfo[j].offset

\* C18: the section-info entries of the active writer, and those of the
\* DATASEC of every BTF that finalization commits, are in ascending order of
\* offset.
C18_SecinfoSorted ==
    /\ Sorted(Secinfo(btfe))
    /\ \A blob \in Flushed :
          \A i \in Datasecs(blob.types) : Sorted(blob.types[i].secinfo)

VarCalls == {[in |-> in, R |-> Result(in)] : in \in VarInputs}

\* the entry of the per-CPU table for addr, NULL when there is none
PercpuEntry(table, addr) ==
    LET ks == {k \in 1..Len(table) : table[k].addr = addr} IN
    IF ks = {} THEN NULL ELSE table[CHOOSE k \in ks : TRUE]

\* the variable the specification link of v leads to, v itself without one
Resolved(v) == IF v.spec # NULL THEN v.spec ELSE v

\* the conditions under which the call c emits a VAR for the variable v
VarWanted(c, v) ==
    /\ ~c.in.skip_encoding_vars
    /\ c.R.btfe.percpu_shndx # 0
    /\ c.R.btfe.symtab # NULL
    /\ ~(v.declaration /\ v.spec = NULL)
    /\ ~(v.scope # "global" /\ v.spec = NULL)
    /\ PercpuEntry(c.R.percpu_vars, v.addr) # NULL
    /\ Resolved(v).type # 0

\* C20: a successful call adds one VAR record for each variable of its CU
\* that meets the conditions, in the order of the CU, and for no other: with
\* the name of the per-CPU entry of the variable's own address, the type
\* type_id_off + the resolved variable's type, and linkage GLOBAL_ALLOCATED
\* iff the resolved variable is external; and it appends one section-info
\* entry for each, with the VAR's ID, the address less percpu_base_addr, and
\* the size of the per-CPU entry.
C20_VarEmission ==
    \A c \in VarCalls :
        c.R.ret = 0 =>
            LET Wanted(v) == VarWanted(c, v)
                IsVar(rec) == rec.kind = "VAR"
                ws == SelectSeq(c.in.cu.variables, Wanted)
                vs == SelectSeq(Added(c), IsVar)
                old == IF c.R.opened THEN << >> ELSE Secinfo(btfe)
                si == c.R.btfe.percpu_secinfo IN
            /\ Len(vs) = Len(ws)
            /\ IsPrefix(old, si)
            /\ Len(si) = Len(old) + Len(ws)
            /\ \A k \in 1..Len(ws) :
                  LET e == PercpuEntry(c.R.percpu_vars, ws[k].addr)
                      r == Resolved(ws[k]) IN
                  /\ vs[k].name = e.name
                  /\ vs[k].type = Snapshot(c) + r.type
                  /\ vs[k].linkage = IF r.external THEN "GLOBAL_ALLOCATED"
                                     ELSE "STATIC"
                  /\ si[Len(old) + k] =
                        [type |-> vs[k].id,
                         offset |-> ws[k].addr - c.R.btfe.percpu_base_addr,
                         size |-> e.sz]

\* the writer of an image with a per-CPU base address holds the VAR of cnt,
\* emitted for a variable with a specification, and its section-info entry
C20_Witness ==
    /\ last = Last("cu__encode_btf", 0)
    /\ btfe # NULL
    /\ btfe.percpu_base_addr # 0
    /\ \E i \in 1..Len(Types) :
          /\ Types[i].kind = "VAR"
          /\ Types[i].name = N_cnt
          /\ Types[i].linkage = "STATIC"
          /\ \E e \in Range(btfe.percpu_secinfo) :
                e.type = Types[i].id /\ e.offset = 0 /\ e.size = 4

\* the addresses of the mcount table of layout fl in the image of the writer
McountAddrs(fl) ==
    LET shdr == ElfOf(btfe.filename).sections[fl.mcount_sec_idx]
        first == (fl.mcount_start - shdr.sh_addr) \div 8
        count == (fl.mcount_stop - fl.mcount_start) \div 8 IN
    {shdr.words[k] : k \in (first + 1)..(first + count)}

\* C19: for every layout whose mcount section exists, filter_functions
\* succeeds and leaves in the table exactly the entries, in their order, that
\* are outside [init_begin, init_end) or inside [init_bpf_begin,
\* init_bpf_end) and whose address is one of the (mcount_stop -
\* mcount_start) / 8 mcount addresses; functions_cnt is their number.
C19_FilterExact ==
    last.op = "start" =>
        \A fl \in FilterLayouts, tie \in TieBreaks :
            fl.mcount_sec_idx \in DOMAIN ElfOf(btfe.filename).sections =>
                LET R == filter_functions(Call(Globals, EnvOk, tie), fl)
                    Kept(e) ==
                        /\ \/ ~(fl.init_begin <= e.addr /\ e.addr < fl.init_end)
                           \/ (fl.init_bpf_begin <= e.addr
                               /\ e.addr < fl.init_bpf_end)
                        /\ e.addr \in McountAddrs(fl) IN
                /\ R.ret = 0
                /\ R.functions = SelectSeq(functions, Kept)

\* filter_functions left a function in the bpf-preserve-type range after
\* one outside the init range
C19_Witness ==
    /\ last = Last("filter_functions", 0)
    /\ Len(functions) = 2
    /\ functions[1].addr = 16
    /\ functions[2].addr = 260

\* the variables of the CU of call c that the variable pass finds in the
\* per-CPU table with a resolved type of 0
VoidVars(c) ==
    {i \in 1..Len(c.in.cu.variables) :
        LET v == c.in.cu.variables[i] IN
        /\ ~(v.declaration /\ v.spec = NULL)
        /\ ~(v.scope # "global" /\ v.spec = NULL)
        /\ PercpuEntry(c.R.percpu_vars, v.addr) # NULL
        /\ Resolved(v).type = 0}

\* C21: a call whose variable pass meets a per-CPU variable of void type,
\* nothing failing in the environment: under force it returns 0, adds no VAR
\* and no section-info entry for that variable, and adds the VAR of every
\* later per-CPU variable of a type; without force it returns a negative
\* status with the writer deleted and the function table cleared, and the
\* BTF of the session is not flushed.
C21_VoidVariable ==
    \A c \in VarCalls :
        (c.in.env = EnvOk /\ ~c.in.skip_encoding_vars /\ VoidVars(c) # {}) =>
            IF c.in.force
            THEN /\ c.R.ret = 0
                 /\ \A i \in VoidVars(c) :
                       LET e == PercpuEntry(c.R.percpu_vars,
                                            c.in.cu.variables[i].addr) IN
                       /\ \A rec \in Range(Added(c)) :
                             rec.kind = "VAR" => rec.name # e.name
                       /\ \A j \in (i + 1)..Len(c.in.cu.variables) :
                             VarWanted(c, c.in.cu.variables[j]) =>
                                 \E rec \in Range(Added(c)) :
                                    /\ rec.kind = "VAR"
                                    /\ rec.name =
                                         PercpuEntry(c.R.percpu_vars,
                                             c.in.cu.variables[j].addr).name
                 /\ Len(c.R.btfe.percpu_secinfo) =
                       Cardinality({rec \in Range(c.R.btfe.types) :
                                       rec.kind = "VAR"})
            ELSE /\ c.R.ret < 0
                 /\ c.R.btfe = NULL
                 /\ c.R.functions = << >>
                 /\ \A blob \in Range(c.R.flushed) :
                       blob.filename # c.in.cu.filename

\* a call under force went past the void variable cnt and emitted the VAR of
\* the static runq that follows it in its CU
C21_Witness ==
    /\ last = Last("cu__encode_btf", 0)
    /\ \E rec \in Range(Types) :
          rec.kind = "VAR" /\ rec.name = N_runq /\ rec.linkage = "STATIC"
    /\ \E c \in VarCalls :
          /\ VoidVars(c) # {}
          /\ ~c.in.force /\ ~c.in.skip_encoding_vars /\ c.in.env = EnvOk
          /\ c.R.ret < 0

\* a symbol the per-CPU table of the writer w takes: an object in the
\* per-CPU section with an address, a size and a valid name
EligiblePercpu(w, sym) ==
    /\ sym.st_shndx = w.percpu_shndx
    /\ sym.type = "OBJECT"
    /\ sym.st_value # 0
    /\ sym.st_size # 0
    /\ btf_name_valid(sym.name)

PercpuEntryOf(sym) ==
    [addr |-> sym.st_value, sz |-> sym.st_size, name |-> sym.name]

\* C22: the per-CPU table never holds more than 4096 entries; an eligible
\* symbol is appended while the table holds fewer, and with 4096 entries
\* collect_percpu_var returns a negative status and leaves the table as it
\* is, the loop of collect_symbols is left with a negative status at that
\* symbol, and a call of cu__encode_btf whose collection fails ends without
\* a session; a symbol that is not eligible never changes the table; a
\* whole symbol collection that succeeds leaves the eligible symbols of its
\* image, and nothing of the table it found, sorted by address.
C22_PercpuCapacity ==
    /\ Len(percpu_vars) <= MAX_PERCPU_VAR_CNT
    /\ \A sym \in PercpuSyms :
          LET R == collect_percpu_var(Call(Globals, EnvOk, "stable"), sym) IN
          IF EligiblePercpu(btfe, sym)
          THEN IF Len(percpu_vars) < MAX_PERCPU_VAR_CNT
               THEN /\ R.ret = 0
                    /\ R.percpu_vars = Append(percpu_vars, PercpuEntryOf(sym))
               ELSE /\ R.ret < 0
                    /\ R.percpu_vars = percpu_vars
          ELSE R.percpu_vars = percpu_vars
    /\ LET L == collect_symbols_loop(Call(Globals, EnvOk, "stable"), TRUE, 1) IN
       (/\ Len(percpu_vars) = MAX_PERCPU_VAR_CNT
        /\ \E sym \in Range(btfe.symtab.syms) : EligiblePercpu(btfe, sym))
           => L.ret < 0 /\ Len(L.percpu_vars) = MAX_PERCPU_VAR_CNT
    /\ \A tie \in TieBreaks :
          LET S == collect_symbols(Call(Globals, EnvOk, tie), TRUE) IN
          S.ret = 0 =>
              /\ Range(S.percpu_vars) \subseteq
                    {PercpuEntryOf(sym) : sym \in
                        {y \in Range(btfe.symtab.syms) : EligiblePercpu(btfe, y)}}
              /\ \A sym \in Range(btfe.symtab.syms) :
                    (EligiblePercpu(btfe, sym) /\ Len(S.percpu_vars) < MAX_PERCPU_VAR_CNT)
                        => PercpuEntryOf(sym) \in Range(S.percpu_vars)
              /\ \A i, j \in 1..Len(S.percpu_vars) :
                    i < j => S.percpu_vars[i].addr <= S.percpu_vars[j].addr
    /\ \A cu \in CUs, force \in BOOLEAN :
          LET G == Call([Globals EXCEPT !.btfe = NULL], EnvOk, "stable")
              S == collect_symbols(btf_elf__new(G, cu.filename), TRUE)
              E == cu__encode_btf(G, cu, 0, force, FALSE) IN
          S.ret # 0 =>
              /\ E.ret < 0
              /\ E.btfe = NULL
              /\ E.functions = << >>
              /\ E.flushed = << >>

\* collect_percpu_var refused a symbol with a full table (under force an
\* invalid name is no failure)
C22_Witness ==
    /\ last = Last("collect_percpu_var", -1)
    /\ Len(percpu_vars) = MAX_PERCPU_VAR_CNT
    /\ btf_elf__force

ArrCalls == {[in |-> in, R |-> Result(in)] : in \in ArrInputs}

\* a + b modulo 2^32, on the 16-bit halves
AddMod32(a, b) ==
    [hi |-> (a.hi + b.hi + (a.lo + b.lo) \div 65536) % 65536,
     lo |-> (a.lo + b.lo) % 65536]

\* a * 256 modulo 2^32
Times256(a) ==
    [hi |-> (a.hi * 256 + a.lo \div 256) % 65536, lo |-> (a.lo * 256) % 65536]

\* a * d modulo 2^32, d below 256
TimesByte(a, d) ==
    [hi |-> (a.hi * d + (a.lo * d) \div 65536) % 65536, lo |-> (a.lo * d) % 65536]

\* a * n modulo 2^32, n taken byte by byte:
\* a * n = 256 * (a * (n / 256)) + a * (n mod 256)
RECURSIVE MulMod32(_, _)
MulMod32(a, n) ==
    IF n = 0 THEN [hi |-> 0, lo |-> 0]
    ELSE AddMod32(Times256(MulMod32(a, n \div 256)), TimesByte(a, n % 256))

\* the product of the dimensions dims[1..k] modulo 2^32
RECURSIVE ProductMod32(_, _)
ProductMod32(dims, k) ==
    IF k = 0 THEN [hi |-> 0, lo |-> 1]
    ELSE MulMod32(ProductMod32(dims, k - 1), dims[k])

\* the product of dimensions that are small enough to multiply as integers
RECURSIVE Product(_, _)
Product(dims, k) == IF k = 0 THEN 1 ELSE Product(dims, k - 1) * dims[k]

Small(dims) == Len(dims) <= 3 /\ \A k \in 1..Len(dims) : dims[k] <= 1024

\* C23: the element count of every ARRAY record a call adds is the product
\* of all dimensions of its tag modulo 2^32: 1 without dimensions, the plain
\* product where that is below 2^32, and its low 32 bits otherwise.
C23_ArrayNelems ==
    \A c \in ArrCalls :
        c.R.ret = 0 =>
            \A rec \in Range(Added(c)) :
                rec.kind = "ARRAY" =>
                    LET dims == c.in.cu.types_table.entries[rec.core_id].nr_entries IN
                    /\ rec.nelems = ProductMod32(dims, Len(dims))
                    /\ Small(dims) =>
                          rec.nelems.hi * 65536 + rec.nelems.lo
                              = Product(dims, Len(dims))
                    /\ dims = <<65536, 65536>> => rec.nelems = [hi |-> 0, lo |-> 0]
                    /\ dims = <<65536, 65537>> => rec.nelems = [hi |-> 1, lo |-> 0]
                    /\ dims = <<65536, 32768>> => rec.nelems = [hi |-> 32768, lo |-> 0]
                    /\ dims = <<70000, 70000>> => rec.nelems = [hi |-> 9232, lo |-> 4352]
                    /\ dims = <<2147483647, 2>> => rec.nelems = [hi |-> 65535, lo |-> 65534]
                    /\ dims = <<2147483647, 2147483647>> =>
                          rec.nelems = [hi |-> 0, lo |-> 1]

\* the writer holds the array of dimensions [4][3] with 12 elements and an
\* array whose product of dimensions, 2^32 + 2^16, was cut to 32 bits
C23_Witness ==
    /\ last = Last("cu__encode_btf", 0)
    /\ \E rec \in Range(Types) :
          rec.kind = "ARRAY" /\ rec.nelems = [hi |-> 0, lo |-> 12]
    /\ \E rec \in Range(Types) :
          rec.kind = "ARRAY" /\ rec.nelems = [hi |-> 1, lo |-> 0]

\* C24: no call of btf_encoder__encode has read through a null btfe: the
\* process was not killed by such a read, and the last call was not a
\* finalization without a writer.
C24_FinalizeNeverNull ==
    /\ ~crashed
    /\ last.op # "btf_encoder__encode(NULL)"

====
